---- MODULE Spec2Model ----
(***************************************************************************)
(* Storyboard node-graph editor: the graph store (useGraphEditor), the     *)
(* enrichment propagation hooks (useSmartConnections,                      *)
(* useConnectionEnricher) and the generation orchestrator                  *)
(* (useGeminiGenerator), as state machines over the store's nodes and      *)
(* connections.                                                            *)
(***************************************************************************)
EXTENDS Naturals, Sequences, FiniteSets, TLC

VARIABLES
    nodes,        \* useGraphEditor: Node[] (insertion order)
    connections,  \* useGraphEditor: Connection[] (insertion order)
    nextNode,     \* number of node ids handed out so far (crypto.randomUUID)
    nextConn,     \* number of connection ids handed out so far
    nextScene,    \* number of scene ids handed out so far
    nodesChanged, \* the nodes array was replaced since the last effect run
    connsChanged, \* the connections array was replaced since the last effect run
    lastOp,       \* the operation that produced this state, with its arguments
    calls,        \* the asynchronous derivation calls in flight, in order of issue
    trail,        \* what happened last on a Script's Character port (history)
    failedConns,  \* ids of the connections a Rule A derivation has failed for (history)
    derived,      \* the Characters a passport derivation was issued for, in order (history)
    persistence,  \* usePersistence: its refs, its timer, its callbacks and the database
    gens,         \* the generateImage invocations in flight, in order of start
    bulk,         \* the generateAll invocation: its snapshot, queue and outcomes
    nextGen       \* how many times a Generate button has been pressed

vars == <<nodes, connections, nextNode, nextConn, nextScene,
          nodesChanged, connsChanged, lastOp, calls, trail, failedConns, derived, persistence, gens,
          bulk, nextGen>>

\* what the store's own actions leave alone
hookVars == <<calls, trail, failedConns, derived, persistence, gens, bulk, nextGen>>

-----------------------------------------------------------------------------
(* Bounds of the model *)

\* node ids that may ever be handed out in the store specification
MaxNodes == 3
\* connection ids that may ever be handed out in the store specification
MaxConns == 2
\* scene ids that may ever be handed out in the store specification
MaxScenes == 1

-----------------------------------------------------------------------------
(* Values *)

Undef == "undefined"
Null == "null"

Character == "CHARACTER"
Setting == "SETTING"
Script == "SCRIPT"
Image == "IMAGE"
Transformation == "TRANSFORMATION"
Video == "VIDEO"

NodeTypes == {Character, Setting, Script, Image, Transformation, Video}

Digits == <<"0", "1", "2", "3", "4", "5", "6", "7", "8", "9">>

\* the k-th id handed out by crypto.randomUUID, written with prefix p
FreshId(p, k) == p \o Digits[k + 1]

NodeIds(k) == {FreshId("n", i) : i \in 1..k}
SceneIds(k) == {FreshId("s", i) : i \in 1..k}

\* JavaScript truthiness of a string-valued field
Truthy(v) == v \notin {Undef, Null, ""}

\* a numeric output key (typeof fromOutput !== 'string'), and its value
NumKeys == {"0", "1"}
NumVal(k) == IF k = "0" THEN 0 ELSE 1

\* the fields of GenerationTrace that the orchestrator sets
NoTrace == [status |-> Undef, stepFailed |-> Undef, rawError |-> Undef]
\* ImageData.incomingTransformationData
NoIncoming == [present |-> FALSE, json |-> Undef, referenceImage |-> Undef]

\* a data object with every field absent
Blank ==
    [ prompt |-> Undef, image |-> Undef, script |-> Undef, scenes |-> <<>>,
      characterPassport |-> Undef, settingPassport |-> Undef,
      cachedCharacterId |-> Undef, cachedCharacterJson |-> Undef,
      isCharacterLoading |-> FALSE,
      cachedSettingId |-> Undef, cachedSettingJson |-> Undef,
      isSettingLoading |-> FALSE,
      isLoading |-> FALSE, error |-> Undef, debugTrace |-> NoTrace,
      sceneEnrichmentStatus |-> Undef, enrichedSceneJson |-> Undef,
      mode |-> Undef, incomingTransformationData |-> NoIncoming,
      modificationPrompt |-> Undef, transformationJson |-> Undef,
      referenceImage |-> Undef, isProcessing |-> FALSE,
      promptSchema |-> Undef, startImage |-> Undef, endImage |-> Undef,
      movementPrompt |-> Undef ]

\* { ...old, ...partial }
Merge(old, partial) ==
    [f \in DOMAIN old |-> IF f \in DOMAIN partial THEN partial[f] ELSE old[f]]

\* the data a node of the given type is created with
InitialData(type) ==
    IF type = Script THEN Merge(Blank, [script |-> "", scenes |-> <<>>])
    ELSE IF type = Image THEN Merge(Blank, [prompt |-> "", isLoading |-> FALSE])
    ELSE Merge(Blank, [prompt |-> "", image |-> Undef])

-----------------------------------------------------------------------------
(* Sequences as arrays *)

RECURSIVE SelectIdx(_, _, _)
\* the indices i in k..Len(s) with keep[i], ascending
SelectIdx(keep, k, n) ==
    IF k > n THEN <<>>
    ELSE IF keep[k] THEN <<k>> \o SelectIdx(keep, k + 1, n)
    ELSE SelectIdx(keep, k + 1, n)

\* Array.prototype.filter with the predicate given pointwise
Filter(s, keep) ==
    LET idx == SelectIdx(keep, 1, Len(s))
    IN [i \in 1..Len(idx) |-> s[idx[i]]]

HasNode(ns, id) == \E i \in 1..Len(ns) : ns[i].id = id

\* nodes.find(n => n.id === id), for an id that is present
NodeOf(ns, id) == ns[CHOOSE i \in 1..Len(ns) : ns[i].id = id]

HasScene(scenes, sid) == \E i \in 1..Len(scenes) : scenes[i].id = sid
SceneOf(scenes, sid) == scenes[CHOOSE i \in 1..Len(scenes) : scenes[i].id = sid]

-----------------------------------------------------------------------------
(* useGraphEditor: the mutators as functions of the previous arrays *)

addNode(ns, type, id) ==
    Append(ns, [id |-> id, type |-> type, data |-> InitialData(type)])

deleteNodeNodes(ns, nodeId) ==
    Filter(ns, [i \in 1..Len(ns) |-> ns[i].id # nodeId])

deleteNodeConnsFromOnly(cs, nodeId) ==
    Filter(cs, [i \in 1..Len(cs) |-> cs[i].fromNodeId # nodeId])

deleteNodeConns(cs, nodeId) ==
    Filter(cs, [i \in 1..Len(cs) |->
                  cs[i].fromNodeId # nodeId /\ cs[i].toNodeId # nodeId])

\* a variant that creates the node when it is not in the array
updateNodeDataUpsert(ns, nodeId, partial) ==
    IF \E i \in 1..Len(ns) : ns[i].id = nodeId
    THEN [i \in 1..Len(ns) |->
            IF ns[i].id = nodeId
            THEN [ns[i] EXCEPT !.data = Merge(@, partial)]
            ELSE ns[i]]
    ELSE Append(ns, [id |-> nodeId, type |-> Image, data |-> Merge(Blank, partial)])

updateNodeData(ns, nodeId, partial) ==
    [i \in 1..Len(ns) |->
        IF ns[i].id = nodeId
        THEN [ns[i] EXCEPT !.data = Merge(@, partial)]
        ELSE ns[i]]

Occupied(cs, conn) ==
    \E i \in 1..Len(cs) :
        cs[i].toNodeId = conn.toNodeId /\ cs[i].toInputIndex = conn.toInputIndex

WithId(conn, id) ==
    [id |-> id, fromNodeId |-> conn.fromNodeId, fromOutput |-> conn.fromOutput,
     toNodeId |-> conn.toNodeId, toInputIndex |-> conn.toInputIndex]

addConnectionNoOccupiedCheck(cs, conn, id) ==
    IF conn.fromNodeId = conn.toNodeId THEN cs
    ELSE Append(cs, WithId(conn, id))

addConnectionNoLoopCheck(cs, conn, id) ==
    IF Occupied(cs, conn) THEN cs
    ELSE Append(cs, WithId(conn, id))

\* a variant in which the new connection takes over an occupied input
addConnectionReplaces(cs, conn, id) ==
    IF conn.fromNodeId = conn.toNodeId THEN cs
    ELSE Append(Filter(cs, [i \in 1..Len(cs) |->
                    ~(cs[i].toNodeId = conn.toNodeId
                        /\ cs[i].toInputIndex = conn.toInputIndex)]),
                WithId(conn, id))

addConnection(cs, conn, id) ==
    IF conn.fromNodeId = conn.toNodeId THEN cs
    ELSE IF Occupied(cs, conn) THEN cs
    ELSE Append(cs, WithId(conn, id))

removeConnection(cs, connectionId) ==
    Filter(cs, [i \in 1..Len(cs) |-> cs[i].id # connectionId])

\* given: an inputIndex was passed (inputIndex !== undefined)
disconnectInput(cs, nodeId, given, inputIndex) ==
    Filter(cs, [i \in 1..Len(cs) |->
        IF given
        THEN ~(cs[i].toNodeId = nodeId /\ cs[i].toInputIndex = inputIndex)
        ELSE cs[i].toNodeId # nodeId])

NewScene(sid) ==
    [id |-> sid, description |-> "A new scene description.",
     selectedSettingId |-> Undef]

addScene(ns, nodeId, sid) ==
    [i \in 1..Len(ns) |->
        IF ns[i].id = nodeId /\ ns[i].type = Script
        THEN [ns[i] EXCEPT !.data.scenes = Append(@, NewScene(sid))]
        ELSE ns[i]]

deleteSceneNodes(ns, nodeId, sceneId) ==
    [i \in 1..Len(ns) |->
        IF ns[i].id = nodeId /\ ns[i].type = Script
        THEN [ns[i] EXCEPT !.data.scenes =
                Filter(@, [j \in 1..Len(@) |-> @[j].id # sceneId])]
        ELSE ns[i]]

deleteSceneConns(cs, nodeId, sceneId) ==
    Filter(cs, [i \in 1..Len(cs) |->
        ~(cs[i].fromNodeId = nodeId /\ cs[i].fromOutput = sceneId)])

-----------------------------------------------------------------------------
(* useGraphEditor: the two effects *)

\* a connection out of a Script node names a scene that exists
ConnHasScene(ns, conn) ==
    LET scenes == NodeOf(ns, conn.fromNodeId).data.scenes
    IN IF conn.fromOutput \notin NumKeys
       THEN HasScene(scenes, conn.fromOutput)
       ELSE NumVal(conn.fromOutput) < Len(scenes)

\* that scene
ConnScene(ns, conn) ==
    LET scenes == NodeOf(ns, conn.fromNodeId).data.scenes
    IN IF conn.fromOutput \notin NumKeys
       THEN SceneOf(scenes, conn.fromOutput)
       ELSE scenes[NumVal(conn.fromOutput) + 1]

\* the filter of the cleaning effect
ValidConnection(ns, conn) ==
    IF HasNode(ns, conn.fromNodeId) /\ NodeOf(ns, conn.fromNodeId).type = Script
    THEN ConnHasScene(ns, conn)
    ELSE TRUE

\* a variant of the effect that keeps every connection
CleanConnectionsKeepsAll(ns, cs) == cs

\* effect on [nodes]: drop the connections whose Script scene is gone
CleanConnections(ns, cs) ==
    Filter(cs, [i \in 1..Len(cs) |-> ValidConnection(ns, cs[i])])

\* the Script -> Image connections of cs with a scene, over the nodes ns
ScriptImageConns(ns, cs) ==
    {i \in 1..Len(cs) :
        /\ HasNode(ns, cs[i].fromNodeId) /\ HasNode(ns, cs[i].toNodeId)
        /\ NodeOf(ns, cs[i].fromNodeId).type = Script
        /\ NodeOf(ns, cs[i].toNodeId).type = Image
        /\ ConnHasScene(ns, cs[i])}

\* imagePrompts[id]: the description of the last such connection into id
ImagePrompt(ns, cs, id) ==
    LET mine == {i \in ScriptImageConns(ns, cs) : cs[i].toNodeId = id}
    IN IF mine = {} THEN ""
       ELSE LET last == CHOOSE i \in mine : \A j \in mine : j <= i
            IN IF Truthy(ConnScene(ns, cs[last]).description)
               THEN ConnScene(ns, cs[last]).description ELSE ""

IsConnectedToScript(ns, cs, id) ==
    \E i \in 1..Len(cs) :
        /\ cs[i].toNodeId = id
        /\ HasNode(ns, cs[i].fromNodeId)
        /\ NodeOf(ns, cs[i].fromNodeId).type = Script

\* effect on [connections]: an Image node fed by a Script takes its prompt
SyncImagePrompts(ns, cs) ==
    [i \in 1..Len(ns) |->
        IF /\ ns[i].type = Image
           /\ IsConnectedToScript(ns, cs, ns[i].id)
           /\ ns[i].data.prompt # ImagePrompt(ns, cs, ns[i].id)
        THEN [ns[i] EXCEPT !.data =
                Merge(@, [prompt |-> ImagePrompt(ns, cs, ns[i].id),
                          error |-> Undef])]
        ELSE ns[i]]

-----------------------------------------------------------------------------
(* The store on its own: useGraphEditor driven through its actions *)

\* no disconnect of a Character is being followed
NoTrail == [phase |-> "none", script |-> Undef, src |-> Undef]
\* generateAll is not running
NoBulk == [active |-> FALSE, nodes |-> <<>>, connections |-> <<>>,
           selected |-> <<>>, queue |-> <<>>, done |-> <<>>]

Init ==
    /\ nodes = <<>>
    /\ connections = <<>>
    /\ nextNode = 0
    /\ nextConn = 0
    /\ nextScene = 0
    /\ nodesChanged = FALSE
    /\ connsChanged = FALSE
    /\ lastOp = [op |-> "init"]
    /\ calls = <<>>
    /\ trail = NoTrail
    /\ failedConns = {}
    /\ derived = <<>>
    /\ persistence = [loading |-> FALSE, isLoadedRef |-> TRUE, lastSavedStr |-> <<>>,
                      stored |-> <<>>, timeoutId |-> <<>>, idleCallbacks |-> <<>>,
                      saving |-> <<>>]
    /\ gens = <<>>
    /\ bulk = NoBulk
    /\ nextGen = 0

\* every effect of the last render has run
Settled == ~nodesChanged /\ ~connsChanged

\* partial updates a caller of the store may pass
StorePartials ==
    { [image |-> Undef], [image |-> Null], [image |-> "img1"],
      [prompt |-> "p1"], [prompt |-> "p1", image |-> "img2"] }

\* connection specs a caller of the store may pass
StoreConnSpecs ==
    [ fromNodeId : NodeIds(nextNode),
      fromOutput : {"0"} \cup SceneIds(nextScene),
      toNodeId : NodeIds(nextNode),
      toInputIndex : {0, 1} ]

AddNode(type) ==
    /\ Settled
    /\ nextNode < MaxNodes
    /\ nodes' = addNode(nodes, type, FreshId("n", nextNode + 1))
    /\ nextNode' = nextNode + 1
    /\ nodesChanged' = TRUE
    /\ lastOp' = [op |-> "addNode"]
    /\ UNCHANGED hookVars
    /\ UNCHANGED <<connections, nextConn, nextScene, connsChanged>>

DeleteNode(nodeId) ==
    /\ Settled
    /\ nodes' = deleteNodeNodes(nodes, nodeId)
    /\ connections' = deleteNodeConns(connections, nodeId)
    /\ nodesChanged' = TRUE
    /\ connsChanged' = TRUE
    /\ lastOp' = [op |-> "deleteNode", nodeId |-> nodeId,
                   wasFrom |-> \E i \in 1..Len(connections) :
                                  connections[i].fromNodeId = nodeId,
                   wasTo |-> \E i \in 1..Len(connections) :
                                  connections[i].toNodeId = nodeId]
    /\ UNCHANGED hookVars
    /\ UNCHANGED <<nextNode, nextConn, nextScene>>

UpdateNodeData(nodeId, partial) ==
    /\ Settled
    /\ nodes' = updateNodeData(nodes, nodeId, partial)
    /\ nodesChanged' = TRUE
    /\ lastOp' = [op |-> "updateNodeData", nodeId |-> nodeId, partial |-> partial]
    /\ UNCHANGED hookVars
    /\ UNCHANGED <<connections, nextNode, nextConn, nextScene, connsChanged>>

AddConnection(conn) ==
    /\ Settled
    /\ nextConn < MaxConns \/ addConnection(connections, conn, nextConn + 1) = connections
    /\ connections' = addConnection(connections, conn, nextConn + 1)
    /\ nextConn' = IF connections' # connections THEN nextConn + 1 ELSE nextConn
    /\ connsChanged' = (connections' # connections)
    /\ lastOp' = [op |-> "addConnection",
                   selfLoop |-> conn.fromNodeId = conn.toNodeId,
                   occupied |-> Occupied(connections, conn)]
    /\ UNCHANGED hookVars
    /\ UNCHANGED <<nodes, nextNode, nextScene, nodesChanged>>

RemoveConnection(connectionId) ==
    /\ Settled
    /\ connections' = removeConnection(connections, connectionId)
    /\ connsChanged' = TRUE
    /\ lastOp' = [op |-> "removeConnection"]
    /\ UNCHANGED hookVars
    /\ UNCHANGED <<nodes, nextNode, nextConn, nextScene, nodesChanged>>

DisconnectInput(nodeId, given, inputIndex) ==
    /\ Settled
    /\ connections' = disconnectInput(connections, nodeId, given, inputIndex)
    /\ connsChanged' = TRUE
    /\ lastOp' = [op |-> "disconnectInput"]
    /\ UNCHANGED hookVars
    /\ UNCHANGED <<nodes, nextNode, nextConn, nextScene, nodesChanged>>

AddScene(nodeId) ==
    /\ Settled
    /\ nextScene < MaxScenes
    /\ nodes' = addScene(nodes, nodeId, FreshId("s", nextScene + 1))
    /\ nextScene' = nextScene + 1
    /\ nodesChanged' = TRUE
    /\ lastOp' = [op |-> "addScene"]
    /\ UNCHANGED hookVars
    /\ UNCHANGED <<connections, nextNode, nextConn, connsChanged>>

DeleteScene(nodeId, sceneId) ==
    /\ Settled
    /\ nodes' = deleteSceneNodes(nodes, nodeId, sceneId)
    /\ connections' = deleteSceneConns(connections, nodeId, sceneId)
    /\ nodesChanged' = TRUE
    /\ connsChanged' = TRUE
    /\ lastOp' = [op |-> "deleteScene"]
    /\ UNCHANGED hookVars
    /\ UNCHANGED <<nextNode, nextConn, nextScene>>

\* one render's effects of useGraphEditor: both read the render's arrays,
\* each queues a functional update
EditorEffects ==
    /\ ~Settled
    /\ LET cleaned == IF nodesChanged THEN CleanConnections(nodes, connections)
                      ELSE connections
           synced == IF connsChanged THEN SyncImagePrompts(nodes, connections)
                     ELSE nodes
       IN /\ connections' = cleaned
          /\ nodes' = synced
          /\ connsChanged' = (Len(cleaned) # Len(connections))
          /\ nodesChanged' = (synced # nodes)
    /\ lastOp' = [op |-> "effects", after |-> lastOp.op]
    /\ UNCHANGED hookVars
    /\ UNCHANGED <<nextNode, nextConn, nextScene>>

StoreNext ==
    \/ \E type \in {Script, Image} : AddNode(type)
    \/ \E nodeId \in NodeIds(nextNode) : DeleteNode(nodeId)
    \/ \E conn \in StoreConnSpecs : AddConnection(conn)
    \/ \E connectionId \in 1..nextConn : RemoveConnection(connectionId)
    \/ \E nodeId \in NodeIds(nextNode), given \in BOOLEAN, inputIndex \in {0, 1} :
          DisconnectInput(nodeId, given, inputIndex)
    \/ \E nodeId \in NodeIds(nextNode) : AddScene(nodeId)
    \/ \E nodeId \in NodeIds(nextNode), sceneId \in SceneIds(nextScene) :
          DeleteScene(nodeId, sceneId)
    \/ EditorEffects

\* the store's nodes and their data, without connections
StoreDataNext ==
    \/ \E type \in {Script, Image, Character} : AddNode(type)
    \/ \E nodeId \in NodeIds(nextNode) : DeleteNode(nodeId)
    \/ \E nodeId \in NodeIds(nextNode), partial \in StorePartials :
          UpdateNodeData(nodeId, partial)
    \/ EditorEffects

SpecStore == Init /\ [][StoreNext]_vars

SpecStoreData == Init /\ [][StoreDataNext]_vars

-----------------------------------------------------------------------------
(* Graph store properties *)

\* C1: no two connections in the store share the same (toNodeId,
\* toInputIndex) pair, after any sequence of addConnection, deleteNode,
\* removeConnection, disconnectInput and deleteScene calls.
ConnectionUniqueness ==
    \A i, j \in 1..Len(connections) :
        i # j => ~( /\ connections[i].toNodeId = connections[j].toNodeId
                    /\ connections[i].toInputIndex = connections[j].toInputIndex )

\* addConnection was just called for an input that another source occupies
OccupiedInputAttempted ==
    /\ lastOp.op = "addConnection"
    /\ ~lastOp.selfLoop /\ lastOp.occupied
    /\ Len(connections) >= 2

NoSelfLoop ==
    \A i \in 1..Len(connections) :
        connections[i].fromNodeId # connections[i].toNodeId

\* C2: no connection with fromNodeId = toNodeId is ever in the store, and
\* addConnection with identical source and target leaves the connections
\* unchanged.
SelfLoopRejected ==
    /\ []NoSelfLoop
    /\ [][ (lastOp'.op = "addConnection" /\ lastOp'.selfLoop)
           => connections' = connections ]_vars

\* addConnection was just called with identical source and target, on a
\* free input of a store that holds connections
SelfLoopAttempted ==
    /\ lastOp.op = "addConnection"
    /\ lastOp.selfLoop /\ ~lastOp.occupied
    /\ Len(connections) >= 1

\* C3: right after deleteNode(id) the node is absent from the store and no
\* connection has id as fromNodeId or as toNodeId.
CascadeDelete ==
    lastOp.op = "deleteNode" =>
        /\ ~HasNode(nodes, lastOp.nodeId)
        /\ \A i \in 1..Len(connections) :
              /\ connections[i].fromNodeId # lastOp.nodeId
              /\ connections[i].toNodeId # lastOp.nodeId

\* deleteNode was just called on a node that had connections in and out
DeletedConnectedNode ==
    /\ lastOp.op = "deleteNode"
    /\ lastOp.wasFrom /\ lastOp.wasTo

\* C4: updateNodeData(id, partial) with partial.image undefined or null
\* leaves a non-empty image of the node as it was.
ImageNeverDropped ==
    [][ (/\ lastOp'.op = "updateNodeData"
         /\ "image" \in DOMAIN lastOp'.partial
         /\ lastOp'.partial.image \in {Undef, Null})
        => \A i \in 1..Len(nodes) :
              (nodes[i].id = lastOp'.nodeId /\ Truthy(nodes[i].data.image))
              => nodes'[i].data.image = nodes[i].data.image ]_vars

-----------------------------------------------------------------------------
(* useSmartConnections: enrichment of a Script from its Character (input 0)
   and Setting (input 1) *)

\* connect gestures that may ever succeed in the application specifications
MaxWires == 3
\* presses of a Generate or regenerate button in one behaviour
MaxGenerations == 2

\* connections.find(c => c.toNodeId === id && c.toInputIndex === idx), as
\* the index of the first match, 0 when there is none
FindConn(cs, id, idx) ==
    LET hits == { i \in 1..Len(cs) :
                    cs[i].toNodeId = id /\ cs[i].toInputIndex = idx }
    IN IF hits = {} THEN 0 ELSE CHOOSE i \in hits : \A j \in hits : i <= j

\* where an asynchronous function is suspended: awaiting the passport, the
\* derivation (summary or cinematic spec), the image; or thrown before its
\* first await
AwaitPassport == "passport"
AwaitSpec == "spec"
AwaitImage == "image"
Thrown == "thrown"
AwaitVeo == "veo"

\* an asynchronous call in flight: the rule, the node it will update, the
\* upstream node and the arguments captured when it was issued
Call(kind, node, src, args) ==
    [kind |-> kind, node |-> node, src |-> src, args |-> args, stage |-> AwaitSpec]

\* what the model answers to enrichCharacter / enrichSetting
EntityJson(prompt) == "entity(" \o prompt \o ")"

\* a variant that also compares the cached derivation with the content
CharDueByContent(scriptData, charNode) ==
    /\ \/ scriptData.cachedCharacterId # charNode.id
       \/ scriptData.cachedCharacterJson # EntityJson(charNode.data.prompt)
    /\ ~scriptData.isCharacterLoading

\* the Character branch fires: a node is connected, it is not the cached one
\* and no call is marked as running
CharDue(scriptData, charNode) ==
    /\ scriptData.cachedCharacterId # charNode.id
    /\ ~scriptData.isCharacterLoading

SettingDue(scriptData, settingNode) ==
    /\ scriptData.cachedSettingId # settingNode.id
    /\ ~scriptData.isSettingLoading

\* the Character branch for one Script node of the render's snapshot
CharFires(ns, cs, node) ==
    LET k == FindConn(cs, node.id, 0)
    IN /\ k # 0
       /\ HasNode(ns, cs[k].fromNodeId)
       /\ CharDue(node.data, NodeOf(ns, cs[k].fromNodeId))

\* a variant that keeps the cache of a disconnected input
CharClearsNever(cs, node) == FALSE

CharClears(cs, node) ==
    /\ FindConn(cs, node.id, 0) = 0
    /\ Truthy(node.data.cachedCharacterId)

SettingFires(ns, cs, node) ==
    LET k == FindConn(cs, node.id, 1)
    IN /\ k # 0
       /\ HasNode(ns, cs[k].fromNodeId)
       /\ SettingDue(node.data, NodeOf(ns, cs[k].fromNodeId))

SettingClears(cs, node) ==
    /\ FindConn(cs, node.id, 1) = 0
    /\ Truthy(node.data.cachedSettingId)

\* the updateNodeData calls the effect makes for one Script node, applied
\* in order to the pending nodes
SmartNodeUpdates(ns, cs, node, pending) ==
    LET afterChar ==
            IF CharFires(ns, cs, node)
            THEN updateNodeData(pending, node.id, [isCharacterLoading |-> TRUE])
            ELSE IF CharClears(cs, node)
            THEN updateNodeData(pending, node.id,
                    [cachedCharacterId |-> Undef, cachedCharacterJson |-> Undef,
                     isCharacterLoading |-> FALSE])
            ELSE pending
    IN IF SettingFires(ns, cs, node)
       THEN updateNodeData(afterChar, node.id, [isSettingLoading |-> TRUE])
       ELSE IF SettingClears(cs, node)
       THEN updateNodeData(afterChar, node.id,
               [cachedSettingId |-> Undef, cachedSettingJson |-> Undef,
                isSettingLoading |-> FALSE])
       ELSE afterChar

\* the calls the effect issues for one Script node
SmartNodeCalls(ns, cs, node) ==
    LET kc == FindConn(cs, node.id, 0)
        ks == FindConn(cs, node.id, 1)
        charNode == NodeOf(ns, cs[kc].fromNodeId)
        settingNode == NodeOf(ns, cs[ks].fromNodeId)
    IN (IF CharFires(ns, cs, node)
        THEN << Call("enrichCharacter", node.id, charNode.id,
                     <<charNode.data.prompt, charNode.data.image>>) >>
        ELSE <<>>)
       \o
       (IF SettingFires(ns, cs, node)
        THEN << Call("enrichSetting", node.id, settingNode.id,
                     <<settingNode.data.prompt, settingNode.data.image>>) >>
        ELSE <<>>)

\* some branch of the effect calls updateNodeData for the node
SmartNodeActs(ns, cs, node) ==
    \/ CharFires(ns, cs, node) \/ CharClears(cs, node)
    \/ SettingFires(ns, cs, node) \/ SettingClears(cs, node)

RECURSIVE SmartUpdates(_, _, _, _)
\* nodes.forEach of the effect, from the k-th node of the snapshot on
SmartUpdates(ns, cs, k, pending) ==
    IF k > Len(ns) THEN pending
    ELSE IF ns[k].type # Script THEN SmartUpdates(ns, cs, k + 1, pending)
    ELSE SmartUpdates(ns, cs, k + 1, SmartNodeUpdates(ns, cs, ns[k], pending))

RECURSIVE SmartCalls(_, _, _)
SmartCalls(ns, cs, k) ==
    IF k > Len(ns) THEN <<>>
    ELSE IF ns[k].type # Script THEN SmartCalls(ns, cs, k + 1)
    ELSE SmartNodeCalls(ns, cs, ns[k]) \o SmartCalls(ns, cs, k + 1)

SmartActs(ns, cs) ==
    \E k \in 1..Len(ns) : ns[k].type = Script /\ SmartNodeActs(ns, cs, ns[k])

-----------------------------------------------------------------------------
(* useConnectionEnricher: scene spec of an Image from its Script, and the
   synchronisation Image -> Transformation -> Image *)

\* what the model answers to fetchCharacterPassport and fetchCinematicSpec
Passport(prompt) == "passport(" \o prompt \o ")"
CinematicSpec(sceneText, passport, settingPassport) ==
    "spec(" \o sceneText \o "," \o passport \o "," \o settingPassport \o ")"

\* JSON.stringify of a value of the model
Stringify(v) == IF v = Undef THEN Undef ELSE "json:" \o v

\* the text of the scene a connection leaves from, '' when there is none
SceneText(ns, conn) ==
    IF ConnHasScene(ns, conn) THEN ConnScene(ns, conn).description ELSE ""

\* the Script -> Image branch does not look at sceneEnrichmentStatus
SceneSpecFiresWhateverStatus(ns, conn) ==
    /\ HasNode(ns, conn.toNodeId) /\ HasNode(ns, conn.fromNodeId)
    /\ LET targetNode == NodeOf(ns, conn.toNodeId)
           sourceNode == NodeOf(ns, conn.fromNodeId)
       IN /\ targetNode.type = Image /\ sourceNode.type = Script
          /\ targetNode.data.mode # "transformation"
          /\ ~Truthy(targetNode.data.enrichedSceneJson)
          /\ Truthy(SceneText(ns, conn))

\* the Script -> Image branch passes its guards
SceneSpecFires(ns, conn) ==
    /\ HasNode(ns, conn.toNodeId) /\ HasNode(ns, conn.fromNodeId)
    /\ LET targetNode == NodeOf(ns, conn.toNodeId)
           sourceNode == NodeOf(ns, conn.fromNodeId)
       IN /\ targetNode.type = Image /\ sourceNode.type = Script
          /\ targetNode.data.mode # "transformation"
          /\ ~Truthy(targetNode.data.enrichedSceneJson)
          /\ targetNode.data.sceneEnrichmentStatus \notin {"loading", "success"}
          /\ Truthy(SceneText(ns, conn))

\* the Character node connected to input 0 of the Script, if it is one
HasCharOf(ns, cs, scriptId) ==
    LET k == FindConn(cs, scriptId, 0)
    IN /\ k # 0
       /\ HasNode(ns, cs[k].fromNodeId)
       /\ NodeOf(ns, cs[k].fromNodeId).type = Character

CharOf(ns, cs, scriptId) == NodeOf(ns, cs[FindConn(cs, scriptId, 0)].fromNodeId)

\* the nodes connected to input 1 of the Script, in connection order
ConnectedSettings(ns, cs, scriptId) ==
    LET settingConns == Filter(cs, [i \in 1..Len(cs) |->
                            cs[i].toNodeId = scriptId /\ cs[i].toInputIndex = 1])
        found == Filter(settingConns, [i \in 1..Len(settingConns) |->
                            HasNode(ns, settingConns[i].fromNodeId)])
    IN [i \in 1..Len(found) |-> NodeOf(ns, found[i].fromNodeId)]

\* a variant that always takes the first connected setting
SettingChoiceFirst(connectedSettings, selectedSettingId) ==
    IF Len(connectedSettings) > 0 THEN 1 ELSE 0

\* the index of the selected setting among the connected ones, of the first
\* one otherwise, 0 when none is connected
SettingChoice(connectedSettings, selectedSettingId) ==
    LET sel == { i \in 1..Len(connectedSettings) :
                    connectedSettings[i].id = selectedSettingId }
    IN IF Truthy(selectedSettingId) /\ sel # {}
       THEN CHOOSE i \in sel : \A j \in sel : i <= j
       ELSE IF Len(connectedSettings) > 0 THEN 1 ELSE 0

\* the passport the enricher takes from the chosen setting
SettingPassportOf(ns, cs, scriptId, selectedSettingId) ==
    LET connectedSettings == ConnectedSettings(ns, cs, scriptId)
        k == SettingChoice(connectedSettings, selectedSettingId)
    IN IF k # 0 /\ connectedSettings[k].type = Setting
             /\ Truthy(connectedSettings[k].data.settingPassport)
       THEN connectedSettings[k].data.settingPassport
       ELSE Null

\* the call the Script -> Image branch issues: it awaits the passport first
\* when the Character has a prompt and no passport, the spec otherwise
SceneSpecCall(ns, cs, conn) ==
    LET scriptId == conn.fromNodeId
        selected == ConnScene(ns, conn).selectedSettingId
        settingPassport == SettingPassportOf(ns, cs, scriptId, selected)
        hasChar == HasCharOf(ns, cs, scriptId)
        charData == CharOf(ns, cs, scriptId).data
    IN IF hasChar /\ Truthy(charData.characterPassport)
       THEN Call("sceneSpec", conn.toNodeId, Undef,
                 <<SceneText(ns, conn), charData.characterPassport, settingPassport>>)
       ELSE IF hasChar /\ Truthy(charData.prompt)
       THEN [ Call("sceneSpec", conn.toNodeId, CharOf(ns, cs, scriptId).id,
                   <<SceneText(ns, conn), charData.prompt, settingPassport>>)
              EXCEPT !.stage = AwaitPassport ]
       ELSE Call("sceneSpec", conn.toNodeId, Undef,
                 <<SceneText(ns, conn), Null, settingPassport>>)

\* the Image -> Transformation branch updates the reference image
RefSyncFires(ns, conn) ==
    /\ HasNode(ns, conn.toNodeId) /\ HasNode(ns, conn.fromNodeId)
    /\ LET targetNode == NodeOf(ns, conn.toNodeId)
           sourceNode == NodeOf(ns, conn.fromNodeId)
       IN /\ targetNode.type = Transformation /\ sourceNode.type = Image
          /\ Truthy(sourceNode.data.image)
          /\ targetNode.data.referenceImage # sourceNode.data.image

\* the Transformation -> Image branch propagates the transformation
TransformSyncFires(ns, conn) ==
    /\ HasNode(ns, conn.toNodeId) /\ HasNode(ns, conn.fromNodeId)
    /\ LET targetNode == NodeOf(ns, conn.toNodeId)
           sourceNode == NodeOf(ns, conn.fromNodeId)
           json == sourceNode.data.transformationJson
           base64 == sourceNode.data.referenceImage
           current == targetNode.data.incomingTransformationData
       IN /\ targetNode.type = Image /\ sourceNode.type = Transformation
          /\ Truthy(json) /\ Truthy(base64)
          /\ \/ targetNode.data.mode # "transformation"
             \/ Stringify(json) # Stringify(current.json)
             \/ base64 # current.referenceImage

\* the updateNodeData call the callback makes for one connection before its
\* first await, applied to the pending nodes
EnricherConnUpdates(ns, conn, pending) ==
    IF SceneSpecFires(ns, conn)
    THEN updateNodeData(pending, conn.toNodeId, [sceneEnrichmentStatus |-> "loading"])
    ELSE IF RefSyncFires(ns, conn)
    THEN updateNodeData(pending, conn.toNodeId,
            [referenceImage |-> NodeOf(ns, conn.fromNodeId).data.image])
    ELSE IF TransformSyncFires(ns, conn)
    THEN updateNodeData(pending, conn.toNodeId,
            [mode |-> "transformation",
             incomingTransformationData |->
                [present |-> TRUE,
                 json |-> NodeOf(ns, conn.fromNodeId).data.transformationJson,
                 referenceImage |-> NodeOf(ns, conn.fromNodeId).data.referenceImage],
             enrichedSceneJson |-> Null,
             sceneEnrichmentStatus |-> "success"])
    ELSE pending

EnricherConnActs(ns, conn) ==
    SceneSpecFires(ns, conn) \/ RefSyncFires(ns, conn) \/ TransformSyncFires(ns, conn)

RECURSIVE EnricherUpdates(_, _, _, _)
\* connections.forEach of the effect, from the k-th connection on
EnricherUpdates(ns, cs, k, pending) ==
    IF k > Len(cs) THEN pending
    ELSE EnricherUpdates(ns, cs, k + 1, EnricherConnUpdates(ns, cs[k], pending))

RECURSIVE EnricherCalls(_, _, _)
EnricherCalls(ns, cs, k) ==
    IF k > Len(cs) THEN <<>>
    ELSE (IF SceneSpecFires(ns, cs[k]) THEN <<SceneSpecCall(ns, cs, cs[k])>> ELSE <<>>)
         \o EnricherCalls(ns, cs, k + 1)

EnricherActs(ns, cs) == \E k \in 1..Len(cs) : EnricherConnActs(ns, cs[k])

-----------------------------------------------------------------------------
(* App: the hooks wired to one store; every render runs the effects of
   useGraphEditor, useSmartConnections and useConnectionEnricher on the
   arrays of that render *)

\* the Characters whose passport a sequence of issued calls derives first
DerivedByCalls(issued) ==
    LET hits == Filter(issued, [i \in 1..Len(issued) |->
                    issued[i].kind = "sceneSpec" /\ issued[i].stage = AwaitPassport])
    IN [i \in 1..Len(hits) |-> hits[i].src]

\* the same for started generateImage invocations
DerivedByRuns(started) ==
    LET hits == Filter(started, [i \in 1..Len(started) |->
                    started[i].stage = AwaitPassport])
    IN [i \in 1..Len(hits) |-> hits[i].charId]

\* a variant in which a Script with a failed derivation halts the pass
PassCallsHaltedByFailure(ns, cs) ==
    IF \E i \in 1..Len(ns) :
          /\ ns[i].type = Script
          /\ \/ Truthy(ns[i].data.cachedSettingId) /\ ~Truthy(ns[i].data.cachedSettingJson)
             \/ Truthy(ns[i].data.cachedCharacterId)
                   /\ ~Truthy(ns[i].data.cachedCharacterJson)
    THEN <<>>
    ELSE SmartCalls(ns, cs, 1) \o EnricherCalls(ns, cs, 1)

\* the calls one pass of the two enrichment hooks issues
PassCalls(ns, cs) == SmartCalls(ns, cs, 1) \o EnricherCalls(ns, cs, 1)

\* the nodes after the updates one pass of the two enrichment hooks queues
PassNodes(ns, cs, pending) ==
    EnricherUpdates(ns, cs, 1, SmartUpdates(ns, cs, 1, pending))

PassActs(ns, cs) == SmartActs(ns, cs) \/ EnricherActs(ns, cs)

\* the pass issues the Character call that a reconnection waits for
Serves(issued, t) ==
    \E i \in 1..Len(issued) :
        /\ issued[i].kind = "enrichCharacter"
        /\ issued[i].node = t.script
        /\ issued[i].src = t.src

RenderPass ==
    /\ ~Settled
    /\ LET cleaned == IF nodesChanged THEN CleanConnections(nodes, connections)
                      ELSE connections
           synced == IF connsChanged THEN SyncImagePrompts(nodes, connections)
                     ELSE nodes
           issued == PassCalls(nodes, connections)
       IN /\ connections' = cleaned
          /\ nodes' = PassNodes(nodes, connections, synced)
          /\ connsChanged' = (Len(cleaned) # Len(connections))
          /\ nodesChanged' = (synced # nodes \/ PassActs(nodes, connections))
          /\ calls' = calls \o issued
          /\ derived' = derived \o DerivedByCalls(issued)
          /\ UNCHANGED persistence
          /\ lastOp' = [op |-> "render", after |-> lastOp.op,
                         about |-> IF lastOp.op = "editPrompt" THEN lastOp.nodeId
                                   ELSE Undef,
                         issued |-> issued]
          /\ trail' = IF trail.phase = "reconnected" /\ Serves(issued, trail)
                      THEN NoTrail ELSE trail
    /\ UNCHANGED <<nextNode, nextConn, nextScene, failedConns, gens, bulk, nextGen>>

\* the input ports a node of the given type offers
InputPorts(type) ==
    IF type \in {Script, Image, Video} THEN {0, 1}
    ELSE IF type = Transformation THEN {0}
    ELSE {}

\* the output keys of a node: a Script's scene ids, output 0 otherwise
OutputKeys(node) ==
    IF node.type = Script
    THEN {node.data.scenes[i].id : i \in 1..Len(node.data.scenes)}
    ELSE IF node.type = Video THEN {}
    ELSE {"0"}

\* the connections a drag from an output to an input can ask for
WireSpecs ==
    { conn \in [ fromNodeId : NodeIds(nextNode),
                 fromOutput : {"0"} \cup SceneIds(nextScene),
                 toNodeId : NodeIds(nextNode),
                 toInputIndex : {0, 1} ] :
        /\ HasNode(nodes, conn.fromNodeId) /\ HasNode(nodes, conn.toNodeId)
        /\ conn.fromOutput \in OutputKeys(NodeOf(nodes, conn.fromNodeId))
        /\ conn.toInputIndex \in InputPorts(NodeOf(nodes, conn.toNodeId).type) }

\* the connection is the Character input of a Script
IsCharPort(ns, conn) ==
    /\ conn.toInputIndex = 0
    /\ HasNode(ns, conn.toNodeId) /\ NodeOf(ns, conn.toNodeId).type = Script

\* onConnectorMouseUp: a drag released on an input
Connect(conn) ==
    /\ Settled
    /\ nextConn < MaxWires
    /\ connections' = IF conn.fromNodeId = conn.toNodeId THEN connections
                      ELSE addConnection(connections, conn, nextConn + 1)
    /\ connections' # connections
    /\ nextConn' = nextConn + 1
    /\ connsChanged' = TRUE
    /\ lastOp' = [op |-> "connect"]
    /\ trail' = IF ~IsCharPort(nodes, conn) THEN trail
                ELSE IF /\ trail.phase = "disconnected"
                        /\ trail.script = conn.toNodeId
                        /\ trail.src = conn.fromNodeId
                THEN [trail EXCEPT !.phase = "reconnected"]
                ELSE NoTrail
    /\ UNCHANGED <<nodes, nextNode, nextScene, nodesChanged, calls, failedConns, derived,
                   persistence, gens, bulk, nextGen>>

\* the disconnect button of a connected input
Disconnect(nodeId, inputIndex) ==
    /\ Settled
    /\ FindConn(connections, nodeId, inputIndex) # 0
    /\ connections' = disconnectInput(connections, nodeId, TRUE, inputIndex)
    /\ connsChanged' = TRUE
    /\ lastOp' = [op |-> "disconnect"]
    /\ trail' = LET conn == connections[FindConn(connections, nodeId, inputIndex)]
                IN IF IsCharPort(nodes, conn)
                   THEN [phase |-> "disconnected", script |-> nodeId,
                         src |-> conn.fromNodeId]
                   ELSE trail
    /\ UNCHANGED <<nodes, nextNode, nextConn, nextScene, nodesChanged,
                   calls, failedConns, derived, persistence, gens, bulk, nextGen>>

\* the texts a user types into a prompt field
Prompts == {"", "hero"}

\* the prompt field of a Character or Setting node
EditPrompt(nodeId, text) ==
    /\ Settled
    /\ HasNode(nodes, nodeId)
    /\ NodeOf(nodes, nodeId).type \in {Character, Setting}
    /\ NodeOf(nodes, nodeId).data.prompt # text
    /\ nodes' = updateNodeData(nodes, nodeId, [prompt |-> text])
    /\ nodesChanged' = TRUE
    /\ lastOp' = [op |-> "editPrompt", nodeId |-> nodeId]
    /\ UNCHANGED <<connections, nextNode, nextConn, nextScene, connsChanged,
                   calls, trail, failedConns, derived, persistence, gens, bulk, nextGen>>

\* the sequence without its i-th element
Without(s, i) == [j \in 1..(Len(s) - 1) |-> IF j < i THEN s[j] ELSE s[j + 1]]

\* how an awaited call can end
Outcomes == {"value", "null", "throw"}

\* how the awaited service does end: the promptArchitect functions catch
\* their own errors and return null, generateSceneImage returns the image
\* data or throws; generateVeoPrompt is called with three arguments for
\* its four parameters: it returns null without an API key, and otherwise
\* throws, on two absent images or on segments.map of undefined
ServiceOutcomes(stage) ==
    IF stage = AwaitImage THEN {"value", "throw"}
    ELSE IF stage = AwaitVeo THEN {"null", "throw"}
    ELSE {"value", "null"}

\* enrichCharacter settles: .then with the summary or with null, or .catch
EnrichCharacterSettles(i, outcome) ==
    /\ Settled
    /\ i \in 1..Len(calls)
    /\ calls[i].kind = "enrichCharacter"
    /\ outcome \in ServiceOutcomes(calls[i].stage)
    /\ nodes' = updateNodeData(nodes, calls[i].node,
          IF outcome = "throw"
          THEN [isCharacterLoading |-> FALSE, cachedCharacterId |-> calls[i].src]
          ELSE [isCharacterLoading |-> FALSE, cachedCharacterId |-> calls[i].src,
                cachedCharacterJson |->
                    IF outcome = "value" THEN EntityJson(calls[i].args[1]) ELSE Null])
    /\ nodesChanged' = TRUE
    /\ calls' = Without(calls, i)
    /\ lastOp' = [op |-> "enrichCharacterSettles", node |-> calls[i].node,
                   src |-> calls[i].src, outcome |-> outcome]
    /\ failedConns' = LET k == FindConn(connections, calls[i].node, 0)
                 IN IF /\ outcome # "value" /\ k # 0
                       /\ connections[k].fromNodeId = calls[i].src
                    THEN failedConns \cup {connections[k].id} ELSE failedConns
    /\ UNCHANGED <<connections, nextNode, nextConn, nextScene, connsChanged,
                   trail, derived, persistence, gens, bulk, nextGen>>

\* enrichSetting settles
EnrichSettingSettles(i, outcome) ==
    /\ Settled
    /\ i \in 1..Len(calls)
    /\ calls[i].kind = "enrichSetting"
    /\ outcome \in ServiceOutcomes(calls[i].stage)
    /\ nodes' = updateNodeData(nodes, calls[i].node,
          IF outcome = "throw"
          THEN [isSettingLoading |-> FALSE, cachedSettingId |-> calls[i].src]
          ELSE [isSettingLoading |-> FALSE, cachedSettingId |-> calls[i].src,
                cachedSettingJson |->
                    IF outcome = "value" THEN EntityJson(calls[i].args[1]) ELSE Null])
    /\ nodesChanged' = TRUE
    /\ calls' = Without(calls, i)
    /\ lastOp' = [op |-> "enrichSettingSettles", node |-> calls[i].node,
                   src |-> calls[i].src, outcome |-> outcome]
    /\ failedConns' = LET k == FindConn(connections, calls[i].node, 1)
                 IN IF /\ outcome # "value" /\ k # 0
                       /\ connections[k].fromNodeId = calls[i].src
                    THEN failedConns \cup {connections[k].id} ELSE failedConns
    /\ UNCHANGED <<connections, nextNode, nextConn, nextScene, connsChanged,
                   trail, derived, persistence, gens, bulk, nextGen>>

\* the state after setGraph has put a saved project into the store
Loaded(ns, cs, scenes) ==
    /\ nodes = ns
    /\ connections = cs
    /\ nextNode = Len(ns)
    /\ nextConn = Len(cs)
    /\ nextScene = scenes
    /\ nodesChanged = TRUE
    /\ connsChanged = TRUE
    /\ lastOp = [op |-> "init"]
    /\ calls = <<>>
    /\ trail = NoTrail
    /\ failedConns = {}
    /\ derived = <<>>
    /\ persistence = [loading |-> FALSE, isLoadedRef |-> TRUE, lastSavedStr |-> <<>>,
                      stored |-> <<>>, timeoutId |-> <<>>, idleCallbacks |-> <<>>,
                      saving |-> <<>>]
    /\ gens = <<>>
    /\ bulk = NoBulk
    /\ nextGen = 0

\* a saved project of one Script and two Characters, not yet connected
InitSmart ==
    Loaded(addNode(addNode(addNode(<<>>, Script, "n1"), Character, "n2"),
                   Character, "n3"),
           <<>>, 0)

SmartNext ==
    \/ \E conn \in WireSpecs : Connect(conn)
    \/ \E nodeId \in NodeIds(nextNode), inputIndex \in {0, 1} :
          Disconnect(nodeId, inputIndex)
    \/ \E nodeId \in NodeIds(nextNode), text \in Prompts : EditPrompt(nodeId, text)
    \/ RenderPass
    \/ \E i \in 1..Len(calls), outcome \in Outcomes :
          EnrichCharacterSettles(i, outcome)
    \/ \E i \in 1..Len(calls), outcome \in Outcomes :
          EnrichSettingSettles(i, outcome)

SpecSmart == InitSmart /\ [][SmartNext]_vars

-----------------------------------------------------------------------------
(* Enrichment of a Script: properties *)

\* C8: the pass that follows an edit of a Character's prompt issues no
\* Character-enrichment call: a Character that stays connected to input 0
\* of a Script is not enriched again because its content changed.
PromptEditNeverEnriches ==
    (lastOp.op = "render" /\ lastOp.after = "editPrompt") =>
        \A i \in 1..Len(lastOp.issued) : lastOp.issued[i].kind # "enrichCharacter"

\* the pass after an edit of a connected Character has run, and the summary
\* the Script caches for that Character was derived from another prompt
StalePromptKept ==
    /\ lastOp.op = "render" /\ lastOp.after = "editPrompt"
    /\ \E k \in 1..Len(connections) :
          /\ IsCharPort(nodes, connections[k])
          /\ connections[k].fromNodeId = lastOp.about
          /\ LET scriptData == NodeOf(nodes, connections[k].toNodeId).data
                 charNode == NodeOf(nodes, lastOp.about)
             IN /\ scriptData.cachedCharacterId = charNode.id
                /\ Truthy(scriptData.cachedCharacterJson)
                /\ scriptData.cachedCharacterJson # EntityJson(charNode.data.prompt)

\* C9: a Character that was disconnected from input 0 of a Script and then
\* connected to it again gets a fresh Character-enrichment call: the graph
\* never comes to rest, all passes run and no Character call of the Script
\* in flight, with the reconnection still waiting for its call.
ReconnectReenriches ==
    ~( /\ trail.phase = "reconnected"
       /\ Settled
       /\ \A i \in 1..Len(calls) :
             ~(calls[i].kind = "enrichCharacter" /\ calls[i].node = trail.script) )

\* C10: for one node and one rule at most one derivation call is in flight.
AtMostOneInFlight ==
    \A i, j \in 1..Len(calls) :
        (i # j) => ~(calls[i].kind = calls[j].kind /\ calls[i].node = calls[j].node)

-----------------------------------------------------------------------------
(* useGeminiGenerator: generateImage on an Image node and generateAll *)

\* JSON.stringify(spec, null, 2)
Stringify2(v) == "json2:" \o v

\* what the model answers to generateSceneImage
GeneratedImage(prompt) == "image(" \o prompt \o ")"

\* s with x pushed unless x is absent or already there
PushImage(s, x) ==
    IF Truthy(x) /\ ~(\E i \in 1..Len(s) : s[i] = x) THEN Append(s, x) ELSE s

\* the image of the node connected to input 0, pushed unless already there
WithVisualRef(ns, cs, id, refs) ==
    LET k == FindConn(cs, id, 0)
    IN IF k # 0 /\ HasNode(ns, cs[k].fromNodeId)
       THEN PushImage(refs, NodeOf(ns, cs[k].fromNodeId).data.image)
       ELSE refs

\* a generateImage invocation at its first await, or thrown before it, for
\* the target node object and the arrays of the render it was created in
GenPlan(tn, ns, cs, inBulk) ==
    LET ks == FindConn(cs, tn.id, 1)
        hasInput == ks # 0 /\ HasNode(ns, cs[ks].fromNodeId)
        incoming == tn.data.incomingTransformationData
        run == [node |-> tn.id, inBulk |-> inBulk, stage |-> Thrown,
                source |-> "manual", charId |-> Undef, args |-> <<>>,
                prompt |-> "", spec |-> Null, refs |-> <<>>,
                stepFailed |-> "traversal", error |-> Undef]
    IN IF tn.data.mode = "transformation" /\ Truthy(incoming.json)
       THEN [run EXCEPT !.source = "transformation", !.stage = AwaitImage,
                        !.spec = incoming.json,
                        !.prompt = Stringify2(incoming.json),
                        !.refs = WithVisualRef(ns, cs, tn.id,
                                    PushImage(<<>>, incoming.referenceImage)),
                        !.stepFailed = "image_api"]
       ELSE IF hasInput /\ NodeOf(ns, cs[ks].fromNodeId).type = Script
       THEN IF ~ConnHasScene(ns, cs[ks])
            THEN [run EXCEPT !.source = "script",
                             !.error = "Invalid scene index or ID."]
            ELSE LET scriptId == cs[ks].fromNodeId
                     scene == ConnScene(ns, cs[ks])
                     kc == FindConn(cs, scriptId, 0)
                     hasChar == kc # 0 /\ HasNode(ns, cs[kc].fromNodeId)
                     characterNode == NodeOf(ns, cs[kc].fromNodeId)
                     connectedSettings == ConnectedSettings(ns, cs, scriptId)
                     kt == SettingChoice(connectedSettings, scene.selectedSettingId)
                     settingPassport ==
                        IF kt # 0 /\ Truthy(connectedSettings[kt].data.settingPassport)
                        THEN connectedSettings[kt].data.settingPassport ELSE Null
                     refs == WithVisualRef(ns, cs, tn.id,
                                PushImage(
                                    PushImage(<<>>, IF hasChar THEN characterNode.data.image
                                                    ELSE Undef),
                                    IF kt # 0 THEN connectedSettings[kt].data.image
                                    ELSE Undef))
                 IN IF /\ hasChar /\ Truthy(characterNode.data.prompt)
                       /\ ~Truthy(characterNode.data.characterPassport)
                    THEN [run EXCEPT !.source = "script", !.stage = AwaitPassport,
                                     !.charId = characterNode.id,
                                     !.args = <<scene.description,
                                                characterNode.data.prompt,
                                                settingPassport>>,
                                     !.refs = refs]
                    ELSE [run EXCEPT !.source = "script", !.stage = AwaitSpec,
                                     !.args = <<scene.description,
                                                IF hasChar /\ Truthy(characterNode.data.characterPassport)
                                                THEN characterNode.data.characterPassport
                                                ELSE Null,
                                                settingPassport>>,
                                     !.refs = refs,
                                     !.stepFailed = "architect_json"]
       ELSE LET promptString == IF Truthy(tn.data.prompt) THEN tn.data.prompt ELSE ""
            IN IF ~Truthy(promptString) /\ ~Truthy(tn.data.image)
               THEN [run EXCEPT !.error = "Connect a Script (Input 2) or Upload an Image."]
               ELSE [run EXCEPT !.stage = AwaitImage, !.prompt = promptString,
                                !.refs = WithVisualRef(ns, cs, tn.id, <<>>),
                                !.stepFailed = "image_api"]

\* the image of the node connected to the given input of a Video node
FrameImage(ns, cs, id, inputIndex) ==
    LET k == FindConn(cs, id, inputIndex)
    IN IF /\ k # 0 /\ HasNode(ns, cs[k].fromNodeId)
          /\ Truthy(NodeOf(ns, cs[k].fromNodeId).data.image)
       THEN NodeOf(ns, cs[k].fromNodeId).data.image
       ELSE Undef

\* what the model answers to generateVeoPrompt
VeoPrompt(startImage, endImage, movement) ==
    "veo(" \o startImage \o "," \o endImage \o "," \o movement \o ")"

\* a generateImage invocation on a Video node at its await
VideoPlan(tn, ns, cs) ==
    [node |-> tn.id, inBulk |-> FALSE, stage |-> AwaitVeo,
     source |-> "video", charId |-> Undef,
     args |-> <<FrameImage(ns, cs, tn.id, 0), FrameImage(ns, cs, tn.id, 1),
                IF Truthy(tn.data.movementPrompt) THEN tn.data.movementPrompt
                ELSE "Cinematic shot">>,
     prompt |-> "", spec |-> Null, refs |-> <<>>,
     stepFailed |-> Undef, error |-> Undef]

\* the update of a Video invocation before its try block
VideoStartUpdates(pending, run) ==
    updateNodeData(pending, run.node, [isLoading |-> TRUE, error |-> Undef])

\* the update after generateVeoPrompt has returned a schema
VideoSuccess(pending, run) ==
    updateNodeData(pending, run.node,
        [isLoading |-> FALSE,
         promptSchema |-> VeoPrompt(run.args[1], run.args[2], run.args[3]),
         startImage |-> run.args[1], endImage |-> run.args[2]])

\* the catch block of the Video branch reports the error only
VideoFailureStaysLoading(pending, run, message) ==
    updateNodeData(pending, run.node, [error |-> message])

\* the update of the catch block of the Video branch
VideoFailure(pending, run, message) ==
    updateNodeData(pending, run.node, [isLoading |-> FALSE, error |-> message])

\* the catch block also resets the image
GenFailureDropsImage(pending, run, message) ==
    updateNodeData(pending, run.node,
        [isLoading |-> FALSE, error |-> message, image |-> Undef,
         debugTrace |-> [status |-> "error", stepFailed |-> run.stepFailed,
                         rawError |-> message]])

\* the update of the catch block
GenFailure(pending, run, message) ==
    updateNodeData(pending, run.node,
        [isLoading |-> FALSE, error |-> message,
         debugTrace |-> [status |-> "error", stepFailed |-> run.stepFailed,
                         rawError |-> message]])

\* an invocation that threw before its first await only reports loading
GenStartUpdatesNoCatch(pending, run) ==
    updateNodeData(pending, run.node,
        [isLoading |-> TRUE, error |-> Undef, debugTrace |-> NoTrace])

\* the updates of a generateImage invocation up to its first await
GenStartUpdates(pending, run) ==
    LET loading == updateNodeData(pending, run.node,
                        [isLoading |-> TRUE, error |-> Undef, debugTrace |-> NoTrace])
    IN IF run.stage = Thrown THEN GenFailure(loading, run, run.error) ELSE loading

\* the update after generateSceneImage has returned
GenSuccess(pending, run) ==
    updateNodeData(pending, run.node,
        [image |-> GeneratedImage(run.prompt), isLoading |-> FALSE,
         prompt |-> run.prompt, enrichedSceneJson |-> run.spec,
         debugTrace |-> [status |-> "success", stepFailed |-> Undef,
                         rawError |-> Undef]])

\* the invocation ends at this await with the given outcome
GenEnds(run, outcome) ==
    \/ run.stage = AwaitImage
    \/ run.stage = AwaitVeo
    \/ outcome = "throw"
    \/ run.stage = AwaitSpec /\ outcome = "null"

GenFails(run, outcome) == GenEnds(run, outcome) /\ outcome # "value"

\* the trace keeps the step it had when the invocation resumes
GenResumedKeepsStep(run, outcome) ==
    IF run.stage = AwaitPassport
    THEN [run EXCEPT !.stage = AwaitSpec,
                     !.args[2] = IF outcome = "value" THEN Passport(run.args[2])
                                 ELSE Null]
    ELSE LET spec == CinematicSpec(run.args[1], run.args[2], run.args[3])
         IN [run EXCEPT !.stage = AwaitImage,
                        !.spec = spec, !.prompt = Stringify2(spec)]

\* the invocation resumed after its await and suspended at the next one
GenResumed(run, outcome) ==
    IF run.stage = AwaitPassport
    THEN [run EXCEPT !.stage = AwaitSpec, !.stepFailed = "architect_json",
                     !.args[2] = IF outcome = "value" THEN Passport(run.args[2])
                                 ELSE Null]
    ELSE LET spec == CinematicSpec(run.args[1], run.args[2], run.args[3])
         IN [run EXCEPT !.stage = AwaitImage, !.stepFailed = "image_api",
                        !.spec = spec, !.prompt = Stringify2(spec)]

\* the updates the invocation queues when its await settles
GenSettleUpdates(pending, run, outcome) ==
    IF run.stage = AwaitVeo
    THEN IF outcome = "value" THEN VideoSuccess(pending, run)
         ELSE VideoFailure(pending, run,
                 IF outcome = "null" THEN "Failed to generate VEO prompt."
                 ELSE IF ~Truthy(run.args[1]) /\ ~Truthy(run.args[2])
                 THEN "At least one image is required."
                 ELSE "Cannot read properties of undefined (reading 'map')")
    ELSE IF GenEnds(run, outcome)
    THEN IF outcome = "value" THEN GenSuccess(pending, run)
         ELSE GenFailure(pending, run,
                 IF outcome = "null"
                 THEN "Failed to generate cinematic specification."
                 ELSE "service error")
    ELSE IF run.stage = AwaitPassport /\ outcome = "value"
    THEN updateNodeData(pending, run.charId,
            [characterPassport |-> Passport(run.args[2])])
    ELSE pending

\* the loop of generateAll stops at a failed node
RemainingAfterAborting(queue, failed) == IF failed THEN <<>> ELSE queue

\* the nodes generateAll still has to visit after one generateImage has
\* returned: generateImage catches its own errors, the loop goes on
RemainingAfter(queue, failed) == queue

\* generateAll's filter: Image nodes that are not loading and have no image
Eligible(ns) ==
    LET keep == Filter(ns, [i \in 1..Len(ns) |->
                    /\ ns[i].type = Image
                    /\ ~ns[i].data.isLoading
                    /\ ~Truthy(ns[i].data.image)])
    IN [i \in 1..Len(keep) |-> keep[i].id]

\* a variant in which the failure of a generation escapes from the loop and
\* leaves the flag set
BulkAdvanceEscaping(b, pending) ==
    IF \E j \in 1..Len(b.done) : b.done[j].outcome = "error"
    THEN [bulk |-> [b EXCEPT !.queue = <<>>], nodes |-> pending, started |-> <<>>]
    ELSE IF b.queue = <<>>
    THEN [bulk |-> [b EXCEPT !.active = FALSE], nodes |-> pending, started |-> <<>>]
    ELSE LET run == GenPlan(NodeOf(b.nodes, Head(b.queue)), b.nodes,
                            b.connections, TRUE)
             loading == GenStartUpdates(pending, run)
         IN IF run.stage = Thrown
            THEN [bulk |-> [b EXCEPT !.queue = <<>>,
                                     !.done = Append(@, [node |-> run.node,
                                                         outcome |-> "error"])],
                  nodes |-> loading, started |-> <<>>]
            ELSE [bulk |-> [b EXCEPT !.queue = Tail(@)], nodes |-> loading,
                  started |-> <<run>>]

RECURSIVE BulkAdvance(_, _)
\* the loop of generateAll from its next node up to the next await, on the
\* arrays captured when it was invoked
BulkAdvance(b, pending) ==
    IF b.queue = <<>>
    THEN [bulk |-> [b EXCEPT !.active = FALSE], nodes |-> pending, started |-> <<>>]
    ELSE LET run == GenPlan(NodeOf(b.nodes, Head(b.queue)), b.nodes,
                            b.connections, TRUE)
             loading == GenStartUpdates(pending, run)
         IN IF run.stage = Thrown
            THEN BulkAdvance(
                    [b EXCEPT !.queue = RemainingAfter(Tail(@), TRUE),
                              !.done = Append(@, [node |-> run.node,
                                                  outcome |-> "error"])],
                    loading)
            ELSE [bulk |-> [b EXCEPT !.queue = Tail(@)], nodes |-> loading,
                  started |-> <<run>>]

\* the Script -> Image connections of a node that lead to a scene
HasScriptConnection(ns, cs, id) ==
    \E k \in 1..Len(cs) :
        /\ cs[k].toNodeId = id
        /\ HasNode(ns, cs[k].fromNodeId)
        /\ NodeOf(ns, cs[k].fromNodeId).type = Script
        /\ ConnHasScene(ns, cs[k])

\* the Generate button of an Image node
GenerateImage(nodeId) ==
    /\ Settled
    /\ nextGen < MaxGenerations
    /\ nextGen' = nextGen + 1
    /\ HasNode(nodes, nodeId)
    /\ LET tn == NodeOf(nodes, nodeId)
           run == GenPlan(tn, nodes, connections, FALSE)
       IN /\ tn.type = Image
          /\ ~tn.data.isLoading
          /\ \/ Truthy(tn.data.prompt)
             \/ Truthy(tn.data.enrichedSceneJson)
             \/ (tn.data.mode = "transformation"
                    /\ tn.data.incomingTransformationData.present)
          /\ nodes' = GenStartUpdates(nodes, run)
          /\ gens' = IF run.stage = Thrown THEN gens ELSE Append(gens, run)
          /\ derived' = derived \o DerivedByRuns(<<run>>)
          /\ UNCHANGED persistence
          /\ lastOp' = [op |-> "generateImage", node |-> nodeId,
                        source |-> run.source,
                        scripted |-> HasScriptConnection(nodes, connections, nodeId),
                        transformed |-> tn.data.incomingTransformationData.present]
    /\ nodesChanged' = TRUE
    /\ UNCHANGED <<connections, nextNode, nextConn, nextScene, connsChanged,
                   calls, trail, failedConns, bulk>>

\* the Generate button of a Video node
GenerateVideo(nodeId) ==
    /\ Settled
    /\ nextGen < MaxGenerations
    /\ nextGen' = nextGen + 1
    /\ HasNode(nodes, nodeId)
    /\ LET tn == NodeOf(nodes, nodeId)
           run == VideoPlan(tn, nodes, connections)
       IN /\ tn.type = Video
          /\ ~tn.data.isLoading
          /\ \/ Truthy(tn.data.startImage)
             \/ Truthy(tn.data.endImage)
             \/ Truthy(tn.data.movementPrompt)
          /\ nodes' = VideoStartUpdates(nodes, run)
          /\ gens' = Append(gens, run)
          /\ lastOp' = [op |-> "generateVideo", node |-> nodeId]
    /\ nodesChanged' = TRUE
    /\ UNCHANGED <<connections, nextNode, nextConn, nextScene, connsChanged,
                   calls, trail, failedConns, derived, persistence, bulk>>

\* the Generate All button
GenerateAll ==
    /\ Settled
    /\ nextGen < MaxGenerations
    /\ nextGen' = nextGen + 1
    /\ ~bulk.active
    /\ LET adv == BulkAdvance([active |-> TRUE, nodes |-> nodes,
                               connections |-> connections,
                               selected |-> Eligible(nodes),
                               queue |-> Eligible(nodes), done |-> <<>>],
                              nodes)
       IN /\ bulk' = adv.bulk
          /\ nodes' = adv.nodes
          /\ gens' = gens \o adv.started
          /\ derived' = derived \o DerivedByRuns(adv.started)
          /\ UNCHANGED persistence
    /\ nodesChanged' = (Eligible(nodes) # <<>>)
    /\ lastOp' = [op |-> "generateAll"]
    /\ UNCHANGED <<connections, nextNode, nextConn, nextScene, connsChanged,
                   calls, trail, failedConns>>

\* an await of a generateImage invocation settles
GenSettles(i, outcome) ==
    /\ Settled
    /\ i \in 1..Len(gens)
    /\ outcome \in ServiceOutcomes(gens[i].stage)
    /\ LET run == gens[i]
           ends == GenEnds(run, outcome)
           updated == GenSettleUpdates(nodes, run, outcome)
           adv == BulkAdvance(
                    [bulk EXCEPT !.queue = RemainingAfter(@, GenFails(run, outcome)),
                                 !.done = Append(@,
                                    [node |-> run.node,
                                     outcome |-> IF outcome = "value" THEN "success"
                                                 ELSE "error"])],
                    updated)
       IN /\ IF ~ends
             THEN /\ gens' = [gens EXCEPT ![i] = GenResumed(run, outcome)]
                  /\ nodes' = updated
                  /\ nodesChanged' = (run.stage = AwaitPassport /\ outcome = "value")
                  /\ bulk' = bulk
             ELSE IF ~run.inBulk
             THEN /\ gens' = Without(gens, i)
                  /\ nodes' = updated
                  /\ nodesChanged' = TRUE
                  /\ bulk' = bulk
             ELSE /\ gens' = Without(gens, i) \o adv.started
                  /\ nodes' = adv.nodes
                  /\ nodesChanged' = TRUE
                  /\ bulk' = adv.bulk
          /\ derived' = IF ends /\ run.inBulk
                         THEN derived \o DerivedByRuns(adv.started) ELSE derived
          /\ UNCHANGED persistence
          /\ lastOp' = [op |-> "genSettles", node |-> run.node,
                        inBulk |-> run.inBulk, stage |-> run.stage,
                        outcome |-> IF ~ends THEN "pending"
                                    ELSE IF outcome = "value" THEN "success"
                                    ELSE "error"]
    /\ UNCHANGED <<connections, nextNode, nextConn, nextScene, connsChanged,
                   calls, trail, failedConns, nextGen>>

\* an await of the enricher's Script -> Image callback settles
SceneSpecSettles(i, outcome) ==
    /\ Settled
    /\ i \in 1..Len(calls)
    /\ calls[i].kind = "sceneSpec"
    /\ outcome \in ServiceOutcomes(calls[i].stage)
    /\ LET call == calls[i]
       IN IF outcome = "throw"
          THEN /\ nodes' = updateNodeData(nodes, call.node,
                              [sceneEnrichmentStatus |-> "error"])
               /\ nodesChanged' = TRUE
               /\ calls' = Without(calls, i)
          ELSE IF call.stage = AwaitPassport
          THEN /\ nodes' = IF outcome = "value"
                           THEN updateNodeData(nodes, call.src,
                                   [characterPassport |-> Passport(call.args[2])])
                           ELSE nodes
               /\ nodesChanged' = (outcome = "value")
               /\ calls' = [calls EXCEPT ![i] =
                              [call EXCEPT !.stage = AwaitSpec,
                                           !.args[2] = IF outcome = "value"
                                                       THEN Passport(call.args[2])
                                                       ELSE Null]]
          ELSE /\ nodes' = updateNodeData(nodes, call.node,
                              [sceneEnrichmentStatus |-> "success",
                               enrichedSceneJson |->
                                  IF outcome = "value"
                                  THEN CinematicSpec(call.args[1], call.args[2],
                                                     call.args[3])
                                  ELSE Null,
                               mode |-> "standard"])
               /\ nodesChanged' = TRUE
               /\ calls' = Without(calls, i)
    /\ lastOp' = [op |-> "sceneSpecSettles", node |-> calls[i].node,
                   outcome |-> outcome,
                   committed |-> (outcome # "throw" /\ calls[i].stage = AwaitSpec),
                   wasTransformation |->
                      (HasNode(nodes, calls[i].node)
                         /\ NodeOf(nodes, calls[i].node).data.mode = "transformation")]
    /\ UNCHANGED <<connections, nextNode, nextConn, nextScene, connsChanged,
                   trail, failedConns, derived, persistence, gens, bulk, nextGen>>

\* a saved project: a Script with one scene, a Transformation that holds its
\* instruction and a reference image, and an empty Image; nothing connected
InitEnrich ==
    Loaded(<< [id |-> "n1", type |-> Script,
               data |-> Merge(InitialData(Script), [scenes |-> <<NewScene("s1")>>])],
              [id |-> "n2", type |-> Transformation,
               data |-> Merge(Blank, [modificationPrompt |-> "at night",
                                      transformationJson |-> "night",
                                      referenceImage |-> "ref0"])],
              [id |-> "n3", type |-> Image, data |-> InitialData(Image)] >>,
           <<>>, 1)

EnrichNext ==
    \/ \E conn \in WireSpecs :
          /\ NodeOf(nodes, conn.toNodeId).type \in {Image, Transformation}
          /\ Connect(conn)
    \/ \E nodeId \in NodeIds(nextNode), inputIndex \in {0, 1} :
          Disconnect(nodeId, inputIndex)
    \/ \E nodeId \in NodeIds(nextNode) : GenerateImage(nodeId)
    \/ RenderPass
    \/ \E i \in 1..Len(calls), outcome \in Outcomes : SceneSpecSettles(i, outcome)
    \/ \E i \in 1..Len(gens), outcome \in Outcomes : GenSettles(i, outcome)

SpecEnrich == InitEnrich /\ [][EnrichNext]_vars

-----------------------------------------------------------------------------
(* Enrichment and generation of an Image: properties *)

\* C5: running the enrichment pass (Rules A, B and C over the whole graph)
\* again right after a pass, with no mutation in between, issues no
\* derivation call and leaves the node data as the first pass left it.
IdempotentPass ==
    lastOp.op = "render" =>
        /\ PassCalls(nodes, connections) = <<>>
        /\ PassNodes(nodes, connections, nodes) = nodes

\* C6: generateImage on an Image node that has a Script connection leading
\* to a scene and holds incomingTransformationData resolves its prompt from
\* the transformation data.
TransformationPrecedence ==
    (lastOp.op = "generateImage" /\ lastOp.scripted /\ lastOp.transformed)
        => lastOp.source = "transformation"

-----------------------------------------------------------------------------
(* Bulk generation *)

\* a saved project of three Image nodes with manual prompts and no image
InitBulk ==
    Loaded(<< [id |-> "n1", type |-> Image,
               data |-> Merge(InitialData(Image), [prompt |-> "dawn"])],
              [id |-> "n2", type |-> Image,
               data |-> Merge(InitialData(Image), [prompt |-> "noon"])],
              [id |-> "n3", type |-> Image,
               data |-> Merge(InitialData(Image), [prompt |-> "dusk"])] >>,
           <<>>, 0)

BulkNext ==
    \/ GenerateAll
    \/ \E nodeId \in NodeIds(nextNode) : GenerateImage(nodeId)
    \/ \E i \in 1..Len(gens), outcome \in Outcomes : GenSettles(i, outcome)
    \/ RenderPass

SpecBulk == InitBulk /\ [][BulkNext]_vars

\* C7: in a bulk generation a failure of one node does not abort the others:
\* when generateAll has returned, the generation of every node it selected
\* has run to completion, and a generation of the bulk that succeeds leaves
\* its node with an image and isLoading = false.
BulkIsolatesFailures ==
    /\ ~bulk.active =>
          \A i \in 1..Len(bulk.selected) :
              \E j \in 1..Len(bulk.done) : bulk.done[j].node = bulk.selected[i]
    /\ ( /\ lastOp.op = "genSettles" /\ lastOp.inBulk
         /\ lastOp.outcome = "success"
         /\ HasNode(nodes, lastOp.node) ) =>
          /\ Truthy(NodeOf(nodes, lastOp.node).data.image)
          /\ ~NodeOf(nodes, lastOp.node).data.isLoading

\* generateAll has returned from three nodes of which the second failed and
\* the first and the third hold their images
BulkSurvivedFailure ==
    /\ ~bulk.active
    /\ Len(bulk.done) = 3
    /\ bulk.done[1].outcome = "success"
    /\ bulk.done[2].outcome = "error"
    /\ bulk.done[3].outcome = "success"
    /\ \A j \in {1, 3} :
          /\ Truthy(NodeOf(nodes, bulk.done[j].node).data.image)
          /\ ~NodeOf(nodes, bulk.done[j].node).data.isLoading
    /\ ~Truthy(NodeOf(nodes, bulk.done[2].node).data.image)

-----------------------------------------------------------------------------
(* Responses and the upstream state *)

\* C11: a derivation response is committed only if it still matches the
\* upstream state: a Character summary is written to a Script only while
\* the Character it was derived from is the node connected to input 0, and
\* a scene spec is written to an Image only while a Script scene is
\* connected to it and it has not switched to transformation mode.
NoStaleCommit ==
    /\ lastOp.op = "enrichCharacterSettles" =>
          LET k == FindConn(connections, lastOp.node, 0)
          IN k # 0 /\ connections[k].fromNodeId = lastOp.src
    /\ (lastOp.op = "sceneSpecSettles" /\ lastOp.committed) =>
          /\ HasScriptConnection(nodes, connections, lastOp.node)
          /\ ~lastOp.wasTransformation

-----------------------------------------------------------------------------
(* Generation on its own: the Generate buttons over a fixed graph *)

\* a saved project: an Image that holds a prompt and an image, fed by a
\* Transformation that has its instruction but no reference image, and
\* feeding the start frame of a Video; a second Image that holds nothing
InitGen ==
    Loaded(<< [id |-> "n1", type |-> Image,
               data |-> Merge(InitialData(Image),
                              [prompt |-> "dawn", image |-> "img0"])],
              [id |-> "n2", type |-> Image, data |-> InitialData(Image)],
              [id |-> "n3", type |-> Video,
               data |-> Merge(Blank, [movementPrompt |-> "pan"])],
              [id |-> "n4", type |-> Transformation,
               data |-> Merge(Blank, [modificationPrompt |-> "at night",
                                      transformationJson |-> "night"])] >>,
           << [id |-> 1, fromNodeId |-> "n1", toNodeId |-> "n3",
               toInputIndex |-> 0, fromOutput |-> "0"],
              [id |-> 2, fromNodeId |-> "n4", toNodeId |-> "n1",
               toInputIndex |-> 0, fromOutput |-> "0"] >>,
           0)

GenNext ==
    \/ GenerateAll
    \/ \E nodeId \in NodeIds(nextNode) : GenerateImage(nodeId)
    \/ \E nodeId \in NodeIds(nextNode) : GenerateVideo(nodeId)
    \/ \E i \in 1..Len(gens), outcome \in Outcomes : GenSettles(i, outcome)
    \/ \E nodeId \in NodeIds(nextNode), inputIndex \in {0, 1} :
          Disconnect(nodeId, inputIndex)
    \/ RenderPass

SpecGen == InitGen /\ [][GenNext]_vars

\* React runs a render that is pending, and an awaited service call
\* settles: with a value, with null or with an exception
SpecGenFair ==
    /\ SpecGen
    /\ WF_vars(RenderPass)
    /\ WF_vars(\E i \in 1..Len(gens), outcome \in Outcomes : GenSettles(i, outcome))

\* C12: every generateImage invocation on an Image or a Video node goes
\* idle -> loading -> {success, error}: while it is suspended at an await
\* its node has isLoading = true with the former error cleared (and, for an
\* Image, the debugTrace cleared), an invocation that fails before its
\* first await leaves isLoading = false with the error, and a node that is
\* loading eventually has isLoading = false, whatever the services answer.
GenerationLifecycle ==
    /\ [](lastOp.op \in {"generateImage", "generateVideo"} =>
            LET d == NodeOf(nodes, lastOp.node).data
            IN \/ /\ \E i \in 1..Len(gens) : gens[i].node = lastOp.node
                  /\ d.isLoading /\ d.error = Undef
                  /\ (lastOp.op = "generateImage" => d.debugTrace = NoTrace)
               \/ /\ ~(\E i \in 1..Len(gens) : gens[i].node = lastOp.node)
                  /\ ~d.isLoading /\ Truthy(d.error))
    /\ \A id \in NodeIds(4) :
          (HasNode(nodes, id) /\ NodeOf(nodes, id).data.isLoading)
             ~> ~(HasNode(nodes, id) /\ NodeOf(nodes, id).data.isLoading)

\* a Video invocation has ended in the catch block: not loading, error set
VideoEndedInError ==
    /\ lastOp.op = "genSettles" /\ lastOp.outcome = "error"
    /\ NodeOf(nodes, lastOp.node).type = Video
    /\ ~NodeOf(nodes, lastOp.node).data.isLoading
    /\ Truthy(NodeOf(nodes, lastOp.node).data.error)

\* C13: a generateImage invocation on an Image node that fails, at whatever
\* stage, leaves the image field of the node as it was: the step in which
\* the failure is written (before the first await, by the Generate button
\* or inside generateAll, or when an awaited call settles) does not change
\* the image of the node.
FailureKeepsImage ==
    [][ \A id \in NodeIds(4) :
          ( /\ HasNode(nodes, id) /\ NodeOf(nodes, id).type = Image
            /\ \/ lastOp'.op = "genSettles" /\ lastOp'.node = id
                    /\ lastOp'.outcome = "error"
               \/ lastOp'.op = "generateImage" /\ lastOp'.node = id
               \/ lastOp'.op = "generateAll" )
          => /\ HasNode(nodes', id)
             /\ NodeOf(nodes', id).data.image = NodeOf(nodes, id).data.image ]_vars

\* the image call of an Image node that already holds an image has thrown
FailedWithImageHeld ==
    /\ lastOp.op = "genSettles" /\ lastOp.outcome = "error"
    /\ NodeOf(nodes, lastOp.node).type = Image
    /\ NodeOf(nodes, lastOp.node).data.debugTrace.status = "error"
    /\ NodeOf(nodes, lastOp.node).data.image = "img0"

\* C14: a failed generateImage on an Image node leaves a debugTrace with
\* status = error, rawError set to the error message, and stepFailed naming
\* the stage that was in progress: traversal when the inputs were missing
\* or invalid (the failure precedes the first await), architect_json when
\* the passport or the spec derivation failed, image_api when the image
\* call failed.
TraceNamesFailedStage ==
    /\ ( /\ lastOp.op = "genSettles" /\ lastOp.outcome = "error"
         /\ NodeOf(nodes, lastOp.node).type = Image ) =>
          LET d == NodeOf(nodes, lastOp.node).data
          IN /\ d.debugTrace.status = "error"
             /\ Truthy(d.debugTrace.rawError) /\ d.debugTrace.rawError = d.error
             /\ d.debugTrace.stepFailed =
                   IF lastOp.stage = AwaitImage THEN "image_api"
                   ELSE "architect_json"
    /\ ( /\ lastOp.op = "generateImage"
         /\ ~(\E i \in 1..Len(gens) : gens[i].node = lastOp.node) ) =>
          LET d == NodeOf(nodes, lastOp.node).data
          IN /\ d.debugTrace.status = "error"
             /\ Truthy(d.debugTrace.rawError) /\ d.debugTrace.rawError = d.error
             /\ d.debugTrace.stepFailed = "traversal"
    /\ lastOp.op = "generateAll" =>
          \A j \in 1..Len(bulk.done) :
              LET d == NodeOf(nodes, bulk.done[j].node).data
              IN /\ d.debugTrace.status = "error"
                 /\ Truthy(d.debugTrace.rawError)
                 /\ d.debugTrace.stepFailed = "traversal"

\* the spec derivation of a generation fed by a Script scene has failed
SpecDerivationFailed ==
    /\ lastOp.op = "genSettles" /\ lastOp.outcome = "error"
    /\ lastOp.stage = AwaitSpec
    /\ NodeOf(nodes, lastOp.node).data.debugTrace.stepFailed = "architect_json"
    /\ NodeOf(nodes, lastOp.node).data.error
          = "Failed to generate cinematic specification."

\* C15: when a Transformation node has a modificationPrompt but no
\* referenceImage, generateImage on the Image node downstream of it fails
\* with an input error that cites the missing reference image and records
\* stepFailed = traversal: right after the Generate click no call is in
\* flight for the node, it is not loading, and its error and debugTrace
\* report the missing reference image.
MissingReferenceFails ==
    ( /\ lastOp.op = "generateImage"
      /\ \E k \in 1..Len(connections) :
            /\ connections[k].toNodeId = lastOp.node
            /\ HasNode(nodes, connections[k].fromNodeId)
            /\ LET tr == NodeOf(nodes, connections[k].fromNodeId)
               IN /\ tr.type = Transformation
                  /\ Truthy(tr.data.modificationPrompt)
                  /\ ~Truthy(tr.data.referenceImage) ) =>
       LET d == NodeOf(nodes, lastOp.node).data
       IN /\ ~(\E i \in 1..Len(gens) : gens[i].node = lastOp.node)
          /\ ~d.isLoading
          /\ d.error \in
               {"Reference image is missing from the previous node. Please generate the source image first.",
                "Transformation node needs a reference image input."}
          /\ d.debugTrace.status = "error"
          /\ d.debugTrace.stepFailed = "traversal"

\* C16: generateImage on an Image node for which no prompt text can be
\* resolved (no transformation data, no Script at input 1, empty manual
\* prompt) and which holds no image fails with a descriptive error and
\* stepFailed = traversal, and never reaches the image call: whether it was
\* invoked by the Generate button or by generateAll, the node is left not
\* loading with the error and the trace, and no invocation for it is in
\* flight.
NoPromptNoImageFails ==
    \A n \in 1..Len(nodes) :
        LET id == nodes[n].id
            d == nodes[n].data
            ks == FindConn(connections, id, 1)
            invoked ==
                \/ lastOp.op = "generateImage" /\ lastOp.node = id
                \/ \E j \in 1..Len(bulk.done) : bulk.done[j].node = id
        IN ( /\ nodes[n].type = Image
             /\ invoked
             /\ ~Truthy(d.prompt) /\ ~Truthy(d.image)
             /\ ~(d.mode = "transformation" /\ Truthy(d.incomingTransformationData.json))
             /\ ks = 0 ) =>
               /\ ~(\E i \in 1..Len(gens) : gens[i].node = id)
               /\ ~d.isLoading
               /\ d.error = "Connect a Script (Input 2) or Upload an Image."
               /\ d.debugTrace.status = "error"
               /\ d.debugTrace.stepFailed = "traversal"
               /\ \A j \in 1..Len(bulk.done) :
                     bulk.done[j].node = id => bulk.done[j].outcome = "error"

\* generateAll has visited the Image that holds neither prompt nor image
EmptyImageVisited ==
    /\ lastOp.op = "generateAll"
    /\ \E j \in 1..Len(bulk.done) : bulk.done[j].node = "n2"
    /\ ~Truthy(NodeOf(nodes, "n2").data.prompt)
    /\ ~Truthy(NodeOf(nodes, "n2").data.image)
    /\ NodeOf(nodes, "n2").data.debugTrace.stepFailed = "traversal"

\* C17: a propagation pass issues a scene-spec call for an Image node only
\* if, in the state the pass ran on, the node is not in transformation
\* mode, has no enrichedSceneJson, and its sceneEnrichmentStatus is neither
\* loading nor success.
SceneSpecOnlyWhenDue ==
    [][ lastOp'.op = "render" =>
          \A i \in 1..Len(lastOp'.issued) :
              lastOp'.issued[i].kind = "sceneSpec" =>
                 LET d == NodeOf(nodes, lastOp'.issued[i].node).data
                 IN /\ d.mode # "transformation"
                    /\ ~Truthy(d.enrichedSceneJson)
                    /\ d.sceneEnrichmentStatus \notin {"loading", "success"} ]_vars

\* a pass has issued a scene-spec call and left its Image node loading
SceneSpecIssued ==
    /\ lastOp.op = "render"
    /\ \E i \in 1..Len(lastOp.issued) :
          /\ lastOp.issued[i].kind = "sceneSpec"
          /\ NodeOf(nodes, lastOp.issued[i].node).data.sceneEnrichmentStatus
                = "loading"

\* C18: when the scene-spec call of Rule B has settled, the Image node has
\* sceneEnrichmentStatus = success with mode = standard only if the call
\* produced a spec, and it has sceneEnrichmentStatus = error when the call
\* failed or produced no spec.
SuccessOnlyWithSpec ==
    ( /\ lastOp.op = "sceneSpecSettles" /\ lastOp.committed
      /\ HasNode(nodes, lastOp.node) ) =>
       LET d == NodeOf(nodes, lastOp.node).data
       IN /\ (d.sceneEnrichmentStatus = "success" /\ d.mode = "standard")
                => Truthy(d.enrichedSceneJson)
          /\ lastOp.outcome # "value" => d.sceneEnrichmentStatus = "error"

-----------------------------------------------------------------------------
(* Regenerating the scene spec *)

\* handleRegenerateSpecs leaves the status as it is
RegenerateKeepsStatus == [enrichedSceneJson |-> Null]

\* the partial handleRegenerateSpecs writes
RegeneratePartial ==
    [enrichedSceneJson |-> Null, sceneEnrichmentStatus |-> "idle"]

\* "Try Again" or the inspector's regenerate of an Image node: the first is
\* rendered when the status is error, the second when the node holds a
\* scene spec; neither while the node shows transformation data or loads
Regenerate(nodeId) ==
    /\ Settled
    /\ nextGen < MaxGenerations
    /\ nextGen' = nextGen + 1
    /\ HasNode(nodes, nodeId)
    /\ LET d == NodeOf(nodes, nodeId).data
       IN /\ NodeOf(nodes, nodeId).type = Image
          /\ ~( /\ d.mode = "transformation"
                /\ d.incomingTransformationData.present
                /\ Truthy(d.incomingTransformationData.json) )
          /\ d.sceneEnrichmentStatus # "loading"
          /\ \/ d.sceneEnrichmentStatus = "error"
             \/ Truthy(d.enrichedSceneJson)
          /\ lastOp' = [op |-> "regenerate", node |-> nodeId]
    /\ nodes' = updateNodeData(nodes, nodeId, RegeneratePartial)
    /\ nodesChanged' = TRUE
    /\ UNCHANGED <<connections, nextNode, nextConn, nextScene, connsChanged,
                   calls, trail, failedConns, derived, persistence, gens, bulk>>

RegenNext ==
    \/ \E conn \in WireSpecs :
          /\ HasNode(nodes, conn.toNodeId)
          /\ NodeOf(nodes, conn.toNodeId).type \in {Image, Transformation}
          /\ Connect(conn)
    \/ \E nodeId \in NodeIds(nextNode), inputIndex \in {0, 1} :
          Disconnect(nodeId, inputIndex)
    \/ \E nodeId \in NodeIds(nextNode) : Regenerate(nodeId)
    \/ RenderPass
    \/ \E i \in 1..Len(calls), outcome \in Outcomes : SceneSpecSettles(i, outcome)

SpecRegen == InitEnrich /\ [][RegenNext]_vars

\* C20: after a manual regenerate on an Image node that is not in
\* transformation mode and is connected to a Script scene with a non-empty
\* description, the propagation pass that follows issues a new scene-spec
\* call for that node.
RegenerateRearms ==
    [][ ( /\ lastOp.op = "regenerate"
          /\ lastOp'.op = "render"
          /\ NodeOf(nodes, lastOp.node).data.mode # "transformation"
          /\ \E k \in 1..Len(connections) :
                /\ connections[k].toNodeId = lastOp.node
                /\ HasNode(nodes, connections[k].fromNodeId)
                /\ NodeOf(nodes, connections[k].fromNodeId).type = Script
                /\ Truthy(SceneText(nodes, connections[k])) )
        => \E i \in 1..Len(lastOp'.issued) :
              /\ lastOp'.issued[i].kind = "sceneSpec"
              /\ lastOp'.issued[i].node = lastOp.node ]_vars

\* the pass after a regenerate has issued a scene-spec call for the node,
\* which held a scene spec from an earlier call
RegeneratedAndReissued ==
    /\ lastOp.op = "render" /\ lastOp.after = "regenerate"
    /\ \E i \in 1..Len(lastOp.issued) :
          /\ lastOp.issued[i].kind = "sceneSpec"
          /\ NodeOf(nodes, lastOp.issued[i].node).data.sceneEnrichmentStatus
                = "loading"
          /\ NodeOf(nodes, lastOp.issued[i].node).data.enrichedSceneJson = Null

-----------------------------------------------------------------------------
(* Failed derivations of Rule A *)

\* C21: when a Rule A derivation call for a Script port fails, the Script
\* is left with the id of the node the call was made for as the cached
\* identity, an empty cached result and the loading flag false, and no
\* later pass issues a derivation call for a connection such a failure was
\* recorded for.
FailureCachesIdentity ==
    [][ /\ ( lastOp'.op = "enrichCharacterSettles" /\ lastOp'.outcome # "value" ) =>
             LET d == NodeOf(nodes', lastOp'.node).data
             IN /\ d.cachedCharacterId = lastOp'.src
                /\ ~Truthy(d.cachedCharacterJson)
                /\ ~d.isCharacterLoading
        /\ ( lastOp'.op = "enrichSettingSettles" /\ lastOp'.outcome # "value" ) =>
             LET d == NodeOf(nodes', lastOp'.node).data
             IN /\ d.cachedSettingId = lastOp'.src
                /\ ~Truthy(d.cachedSettingJson)
                /\ ~d.isSettingLoading
        /\ lastOp'.op = "render" =>
             \A i \in 1..Len(lastOp'.issued) :
                 LET call == lastOp'.issued[i]
                     k == FindConn(connections, call.node,
                                   IF call.kind = "enrichCharacter" THEN 0 ELSE 1)
                 IN call.kind \in {"enrichCharacter", "enrichSetting"} =>
                       connections[k].id \notin failedConns ]_vars

\* C22: when the connection into the Character port (0) or the Setting port
\* (1) of a Script is removed, then once the next propagation pass has run
\* the cached identity and the cached result of that port are cleared and
\* its loading flag is false, also when a derivation for the port is still
\* in flight: after the pass that follows a disconnect, every Script has,
\* for each of the two ports that is not connected, no cached identity, no
\* cached result and the loading flag false.
DisconnectClearsCache ==
    ( lastOp.op = "render" /\ lastOp.after = "disconnect" ) =>
       \A n \in 1..Len(nodes) :
          nodes[n].type = Script =>
             /\ FindConn(connections, nodes[n].id, 0) = 0 =>
                   /\ ~Truthy(nodes[n].data.cachedCharacterId)
                   /\ ~Truthy(nodes[n].data.cachedCharacterJson)
                   /\ ~nodes[n].data.isCharacterLoading
             /\ FindConn(connections, nodes[n].id, 1) = 0 =>
                   /\ ~Truthy(nodes[n].data.cachedSettingId)
                   /\ ~Truthy(nodes[n].data.cachedSettingJson)
                   /\ ~nodes[n].data.isSettingLoading

-----------------------------------------------------------------------------
(* Image -> Transformation and Transformation -> Image propagation *)

\* C23: when an Image node that holds a generated image is connected into a
\* Transformation node, then once propagation has settled the
\* Transformation's referenceImage equals that image and its sourceJson
\* equals the active spec JSON of the Image: enrichedSceneJson in standard
\* mode, incomingTransformationData.json in transformation mode.  (A field
\* the data does not have reads as undefined.)
ReferenceAndSourceJsonSynced ==
    Settled =>
       \A k \in 1..Len(connections) :
          ( /\ HasNode(nodes, connections[k].fromNodeId)
            /\ HasNode(nodes, connections[k].toNodeId)
            /\ NodeOf(nodes, connections[k].fromNodeId).type = Image
            /\ NodeOf(nodes, connections[k].toNodeId).type = Transformation
            /\ Truthy(NodeOf(nodes, connections[k].fromNodeId).data.image) ) =>
             LET src == NodeOf(nodes, connections[k].fromNodeId).data
                 tgt == NodeOf(nodes, connections[k].toNodeId).data
             IN /\ tgt.referenceImage = src.image
                /\ (IF "sourceJson" \in DOMAIN tgt THEN tgt.sourceJson ELSE Undef)
                      = IF src.mode = "transformation"
                        THEN src.incomingTransformationData.json
                        ELSE src.enrichedSceneJson

\* C24: whenever a Transformation node that holds both a transformationJson
\* and a referenceImage is connected into an Image node, once propagation
\* has settled the Image has incomingTransformationData equal to
\* {json, referenceImage} of the Transformation, mode = transformation and
\* enrichedSceneJson = null, and it stays so after any later generation on
\* that Image.
TransformationInjected ==
    Settled =>
       \A k \in 1..Len(connections) :
          ( /\ HasNode(nodes, connections[k].fromNodeId)
            /\ HasNode(nodes, connections[k].toNodeId)
            /\ NodeOf(nodes, connections[k].fromNodeId).type = Transformation
            /\ NodeOf(nodes, connections[k].toNodeId).type = Image
            /\ Truthy(NodeOf(nodes, connections[k].fromNodeId).data.transformationJson)
            /\ Truthy(NodeOf(nodes, connections[k].fromNodeId).data.referenceImage) ) =>
             LET src == NodeOf(nodes, connections[k].fromNodeId).data
                 tgt == NodeOf(nodes, connections[k].toNodeId).data
             IN /\ tgt.incomingTransformationData.json = src.transformationJson
                /\ tgt.incomingTransformationData.referenceImage = src.referenceImage
                /\ tgt.mode = "transformation"
                /\ tgt.enrichedSceneJson = Null

-----------------------------------------------------------------------------
(* Several Settings at input 1 of a Script.  addConnection admits one
   connection per input, so such a graph comes from a project file:
   handleLoad sets whatever arrays of nodes and connections the file holds. *)

\* the Settings that the file connects to input 1 of the Script, in order
SettingOrders ==
    { order \in [1..2 -> {"n2", "n3", "n4"}] : order[1] # order[2] }

\* a loaded file: a Script with one scene, three analysed Settings of which
\* two are connected to input 1 of the Script, and an empty Image; the scene
\* selects none of the Settings or any one of them
InitSettings ==
    \E order \in SettingOrders, selected \in {Undef, "n2", "n3", "n4"} :
        Loaded(<< [id |-> "n1", type |-> Script,
                   data |-> Merge(InitialData(Script),
                                [scenes |-> << [id |-> "s1", description |-> "dawn",
                                                selectedSettingId |-> selected] >>])],
                  [id |-> "n2", type |-> Setting,
                   data |-> Merge(InitialData(Setting), [settingPassport |-> "p2"])],
                  [id |-> "n3", type |-> Setting,
                   data |-> Merge(InitialData(Setting), [settingPassport |-> "p3"])],
                  [id |-> "n4", type |-> Setting,
                   data |-> Merge(InitialData(Setting), [settingPassport |-> "p4"])],
                  [id |-> "n5", type |-> Image, data |-> InitialData(Image)] >>,
               [i \in 1..2 |-> [id |-> i, fromNodeId |-> order[i], toNodeId |-> "n1",
                                toInputIndex |-> 1, fromOutput |-> "0"]],
               1)

SettingsNext ==
    \/ \E conn \in WireSpecs :
          /\ NodeOf(nodes, conn.fromNodeId).type = Script
          /\ NodeOf(nodes, conn.toNodeId).type = Image
          /\ Connect(conn)
    \/ \E nodeId \in NodeIds(nextNode), inputIndex \in {0, 1} :
          Disconnect(nodeId, inputIndex)
    \/ \E nodeId \in NodeIds(nextNode) : Regenerate(nodeId)
    \/ RenderPass
    \/ \E i \in 1..Len(calls), outcome \in Outcomes : EnrichSettingSettles(i, outcome)
    \/ \E i \in 1..Len(calls), outcome \in Outcomes : SceneSpecSettles(i, outcome)

SpecSettings == InitSettings /\ [][SettingsNext]_vars

\* C25: when two or more Setting nodes are connected to input 1 of a Script,
\* the scene-spec derivation for a scene of that Script uses the Setting
\* whose id equals the scene's selectedSettingId if that Setting is
\* connected, and otherwise the Setting of the first connection to input 1
\* in insertion order.
SelectedSettingElseFirst ==
    [][ lastOp'.op = "render" =>
          \A i \in 1..Len(lastOp'.issued), k \in 1..Len(connections) :
             LET call == lastOp'.issued[i]
                 conn == connections[k]
                 wired == { j \in 1..Len(connections) :
                              /\ connections[j].toNodeId = conn.fromNodeId
                              /\ connections[j].toInputIndex = 1
                              /\ HasNode(nodes, connections[j].fromNodeId)
                              /\ NodeOf(nodes, connections[j].fromNodeId).type
                                    = Setting }
             IN ( /\ call.kind = "sceneSpec" /\ call.node = conn.toNodeId
                  /\ SceneSpecFires(nodes, conn)
                  /\ Cardinality(wired) >= 2 ) =>
                   LET selected == ConnScene(nodes, conn).selectedSettingId
                       first == CHOOSE j \in wired : \A h \in wired : j <= h
                       used == IF \E j \in wired :
                                     connections[j].fromNodeId = selected
                               THEN selected
                               ELSE connections[first].fromNodeId
                   IN call.args[3] = NodeOf(nodes, used).data.settingPassport ]_vars

\* a pass has issued the scene-spec call with the passport of the selected
\* Setting, which is connected second
SelectedSecondSettingUsed ==
    /\ lastOp.op = "render"
    /\ \E i \in 1..Len(lastOp.issued), j, h \in 1..Len(connections) :
          /\ lastOp.issued[i].kind = "sceneSpec"
          /\ j < h
          /\ connections[j].toNodeId = "n1" /\ connections[j].toInputIndex = 1
          /\ connections[h].toNodeId = "n1" /\ connections[h].toInputIndex = 1
          /\ NodeOf(nodes, "n1").data.scenes[1].selectedSettingId
                = connections[h].fromNodeId
          /\ lastOp.issued[i].args[3]
                = NodeOf(nodes, connections[h].fromNodeId).data.settingPassport

-----------------------------------------------------------------------------
(* The generator and Rule B on the same graph *)

\* a saved project: a Script with one scene wired to input 1 of an Image, a
\* Character with a prompt wired to input 0 of the Script, and an analysed
\* Setting with a prompt
InitTraverse ==
    Loaded(<< [id |-> "n1", type |-> Script,
               data |-> Merge(InitialData(Script), [scenes |-> <<NewScene("s1")>>])],
              [id |-> "n2", type |-> Character,
               data |-> Merge(InitialData(Character), [prompt |-> "hero"])],
              [id |-> "n3", type |-> Setting,
               data |-> Merge(InitialData(Setting),
                            [prompt |-> "forest", settingPassport |-> "p3"])],
              [id |-> "n4", type |-> Image, data |-> InitialData(Image)] >>,
           << [id |-> 1, fromNodeId |-> "n2", toNodeId |-> "n1",
               toInputIndex |-> 0, fromOutput |-> "0"],
              [id |-> 2, fromNodeId |-> "n1", toNodeId |-> "n4",
               toInputIndex |-> 1, fromOutput |-> "s1"] >>,
           1)

TraverseNext ==
    \/ \E conn \in WireSpecs : NodeOf(nodes, conn.toNodeId).type = Script /\ Connect(conn)
    \/ \E inputIndex \in {0, 1} : Disconnect("n1", inputIndex)
    \/ \E nodeId \in NodeIds(nextNode) : GenerateImage(nodeId)
    \/ RenderPass
    \/ \E i \in 1..Len(calls), outcome \in Outcomes : SceneSpecSettles(i, outcome)
    \/ \E i \in 1..Len(gens), outcome \in Outcomes : GenSettles(i, outcome)

SpecTraverse == InitTraverse /\ [][TraverseNext]_vars

\* C26: for the same graph, the generator's traversal of an Image node in
\* standard mode that a Script scene feeds resolves the same scene text, the
\* same Character passport (or the same on-demand passport derivation, for
\* the same Character node) and the same Setting passport as Rule B resolves
\* for that Image node.
GeneratorResolvesAsRuleB ==
    [][ ( /\ lastOp'.op = "generateImage" /\ lastOp'.source = "script"
          /\ Len(gens') > Len(gens) ) =>
           LET run == gens'[Len(gens')]
               conn == connections[FindConn(connections, run.node, 1)]
               call == SceneSpecCall(nodes, connections, conn)
           IN Truthy(SceneText(nodes, conn)) =>
                 /\ run.args = call.args
                 /\ run.charId = call.src
                 /\ (run.stage = AwaitPassport) = (call.stage = AwaitPassport) ]_vars

-----------------------------------------------------------------------------
(* Generation of a Video node *)

\* C27: generateImage on a Video node does not fail because its start
\* frame, its end frame or both are absent: it goes on to the video-prompt
\* call, and when that call succeeds it stores the promptSchema together
\* with the snapshot of the frames that were used.
VideoToleratesAbsentFrames ==
    ( /\ lastOp.op = "genSettles" /\ lastOp.stage = AwaitVeo
      /\ HasNode(nodes, lastOp.node) ) =>
       LET d == NodeOf(nodes, lastOp.node).data
       IN /\ d.error # "At least one image is required."
          /\ lastOp.outcome = "success" =>
                /\ Truthy(d.promptSchema)
                /\ d.startImage = FrameImage(nodes, connections, lastOp.node, 0)
                /\ d.endImage = FrameImage(nodes, connections, lastOp.node, 1)

-----------------------------------------------------------------------------
(* Graph store: rejected connections and removed scenes *)

\* C28: addConnection to a (toNodeId, toInputIndex) pair that is already
\* occupied is a no-op: the connections are unchanged, so the existing
\* connection keeps its source and its id.
OccupiedInputIsNoOp ==
    [][ (lastOp'.op = "addConnection" /\ lastOp'.occupied) =>
            connections' = connections ]_vars

\* addConnection was just called for the occupied input of the only
\* connection, from another node than the target
OccupiedInputKept ==
    /\ lastOp.op = "addConnection"
    /\ lastOp.occupied /\ ~lastOp.selfLoop
    /\ Len(connections) = 1

\* processCSV of the Script node: the parsed rows replace the scenes, each
\* with a fresh id
ReplaceScenes(nodeId) ==
    /\ Settled
    /\ nextScene < MaxScenes
    /\ HasNode(nodes, nodeId) /\ NodeOf(nodes, nodeId).type = Script
    /\ nodes' = updateNodeData(nodes, nodeId,
                    [scenes |-> << [id |-> FreshId("s", nextScene + 1),
                                    description |-> "imported",
                                    selectedSettingId |-> Undef] >>])
    /\ nextScene' = nextScene + 1
    /\ nodesChanged' = TRUE
    /\ lastOp' = [op |-> "replaceScenes"]
    /\ UNCHANGED hookVars
    /\ UNCHANGED <<connections, nextNode, nextConn, connsChanged>>

\* a saved project: a Script whose scene s0 feeds an Image, and a second
\* Image
InitScenes ==
    /\ Loaded(<< [id |-> "n1", type |-> Script,
                  data |-> Merge(InitialData(Script), [scenes |-> <<NewScene("s0")>>])],
                 [id |-> "n2", type |-> Image, data |-> InitialData(Image)],
                 [id |-> "n3", type |-> Image, data |-> InitialData(Image)] >>,
              << [id |-> 1, fromNodeId |-> "n1", toNodeId |-> "n2",
                  toInputIndex |-> 1, fromOutput |-> "s0"] >>,
              0)

ScenesNext ==
    \/ \E conn \in StoreConnSpecs : AddConnection(conn)
    \/ \E connectionId \in 1..nextConn : RemoveConnection(connectionId)
    \/ \E nodeId \in NodeIds(nextNode) : AddScene(nodeId)
    \/ \E nodeId \in NodeIds(nextNode) : ReplaceScenes(nodeId)
    \/ \E nodeId \in NodeIds(nextNode), sceneId \in {"s0"} \cup SceneIds(nextScene) :
          DeleteScene(nodeId, sceneId)
    \/ EditorEffects

SpecScenes == InitScenes /\ [][ScenesNext]_vars

\* C29: the pass of the effects that follows a change of a Script's scenes
\* (deleteScene, a replacement of the scenes list, addScene) leaves no
\* connection out of a Script node whose fromOutput names a scene that the
\* Script does not have, and leaves all other connections as they were, in
\* their order.
ScenePruning ==
    [][ ( /\ lastOp.op \in {"deleteScene", "replaceScenes", "addScene"}
          /\ lastOp'.op = "effects" ) =>
          connections' =
             Filter(connections, [i \in 1..Len(connections) |->
                LET c == connections[i]
                IN ~( /\ HasNode(nodes, c.fromNodeId)
                      /\ NodeOf(nodes, c.fromNodeId).type = Script
                      /\ LET scenes == NodeOf(nodes, c.fromNodeId).data.scenes
                         IN IF c.fromOutput \in NumKeys
                            THEN NumVal(c.fromOutput) >= Len(scenes)
                            ELSE \A j \in 1..Len(scenes) :
                                    scenes[j].id # c.fromOutput )]) ]_vars

\* the pass after a replacement of the scenes has pruned the connection of
\* the old scene and kept another connection
PrunedAfterReplacement ==
    /\ lastOp.op = "effects" /\ lastOp.after = "replaceScenes"
    /\ connsChanged
    /\ Len(connections) >= 1

-----------------------------------------------------------------------------
(* The passport of a Character *)

\* C30: a Character's characterPassport is derived again only when the
\* Character's generating input changes: while the input is unchanged (no
\* behaviour of SpecTraverse edits it), Rule B and the generator together
\* issue the on-demand passport derivation at most once for that Character,
\* across all Image nodes and all passes.
PassportDerivedOnce ==
    \A i, j \in 1..Len(derived) : i # j => derived[i] # derived[j]

-----------------------------------------------------------------------------
(* Failures inside a propagation pass *)

\* C31: a failed derivation of one node is recorded on that node only and
\* never stops a pass: the response that reports the failure changes no
\* other node and no connection, and every pass issues the call of every
\* rule that is due on the arrays it ran on, whatever failures other nodes
\* hold.
FailureStaysLocal ==
    [][ /\ ( /\ lastOp'.op \in {"enrichCharacterSettles", "enrichSettingSettles"}
             /\ lastOp'.outcome # "value" ) =>
               /\ connections' = connections
               /\ Len(nodes') = Len(nodes)
               /\ \A i \in 1..Len(nodes) :
                     nodes[i].id # lastOp'.node => nodes'[i] = nodes[i]
        /\ lastOp'.op = "render" =>
               /\ \A k \in 1..Len(connections) :
                     SceneSpecFires(nodes, connections[k]) =>
                        \E i \in 1..Len(lastOp'.issued) :
                           /\ lastOp'.issued[i].kind = "sceneSpec"
                           /\ lastOp'.issued[i].node = connections[k].toNodeId
               /\ \A n \in 1..Len(nodes) :
                     nodes[n].type = Script =>
                        /\ CharFires(nodes, connections, nodes[n]) =>
                              \E i \in 1..Len(lastOp'.issued) :
                                 /\ lastOp'.issued[i].kind = "enrichCharacter"
                                 /\ lastOp'.issued[i].node = nodes[n].id
                        /\ SettingFires(nodes, connections, nodes[n]) =>
                              \E i \in 1..Len(lastOp'.issued) :
                                 /\ lastOp'.issued[i].kind = "enrichSetting"
                                 /\ lastOp'.issued[i].node = nodes[n].id ]_vars

\* a pass has issued the scene-spec call of an Image while the Script holds
\* a failed Setting derivation
PassWentOnAfterFailure ==
    /\ lastOp.op = "render"
    /\ \E i \in 1..Len(lastOp.issued) : lastOp.issued[i].kind = "sceneSpec"
    /\ \E n \in 1..Len(nodes) :
          /\ nodes[n].type = Script
          /\ Truthy(nodes[n].data.cachedSettingId)
          /\ ~Truthy(nodes[n].data.cachedSettingJson)

-----------------------------------------------------------------------------
(* usePersistence: the load at startup and the debounced auto-save.       *)
(* A project and a fingerprint are the pair <<nodes, connections>>: the   *)
(* model's records already carry an absent and an undefined field alike,  *)
(* as JSON.stringify writes them; <<>> is the empty string and a missing  *)
(* project.                                                               *)

\* a variant that does not wait for the load
AutoSaveDueUnloaded(isLoaded, currentStr, lastSaved) ==
    currentStr # lastSaved

\* a variant that does not compare the fingerprints
AutoSaveDueAlways(isLoaded, currentStr, lastSaved) ==
    isLoaded

\* the auto-save effect goes on to schedule a save: the project has been
\* loaded and the graph's fingerprint is not the last saved one
AutoSaveDue(isLoaded, currentStr, lastSaved) ==
    isLoaded /\ currentStr # lastSaved

\* App mounts: the store is empty, the first render's effects are pending,
\* loadInitialData is in flight; the database holds no project, an emptied
\* project, or a project of one Image node saved by an earlier session
InitPersist ==
    /\ nodes = <<>>
    /\ connections = <<>>
    /\ nextNode = 1
    /\ nextConn = 0
    /\ nextScene = 0
    /\ nodesChanged = TRUE
    /\ connsChanged = TRUE
    /\ lastOp = [op |-> "init"]
    /\ calls = <<>>
    /\ trail = NoTrail
    /\ failedConns = {}
    /\ derived = <<>>
    /\ gens = <<>>
    /\ bulk = NoBulk
    /\ nextGen = 0
    /\ \E project \in {<<>>, << <<>>, <<>> >>, << addNode(<<>>, Image, "n1"), <<>> >>} :
          persistence = [loading |-> TRUE, isLoadedRef |-> FALSE, lastSavedStr |-> <<>>,
                         stored |-> project, timeoutId |-> <<>>,
                         idleCallbacks |-> <<>>, saving |-> <<>>]

\* one render that saw a new graph object: the effects of useGraphEditor and
\* the auto-save effect, whose cleanup clears the timeout of the render before
PersistRender ==
    /\ ~Settled
    /\ LET cleaned == IF nodesChanged THEN CleanConnections(nodes, connections)
                      ELSE connections
           synced == IF connsChanged THEN SyncImagePrompts(nodes, connections)
                     ELSE nodes
           currentStr == <<nodes, connections>>
       IN /\ connections' = cleaned
          /\ nodes' = synced
          /\ connsChanged' = (Len(cleaned) # Len(connections))
          /\ nodesChanged' = (synced # nodes)
          /\ persistence' =
                [persistence EXCEPT !.timeoutId =
                    IF AutoSaveDue(persistence.isLoadedRef, currentStr,
                                   persistence.lastSavedStr)
                    THEN <<currentStr>> ELSE <<>>]
          /\ lastOp' = [op |-> "effects", after |-> lastOp.op,
                        scheduled |-> persistence'.timeoutId # <<>>,
                        same |-> currentStr = persistence.lastSavedStr]
    /\ UNCHANGED <<nextNode, nextConn, nextScene, calls, trail, failedConns, derived,
                   gens, bulk, nextGen>>

\* loadInitialData settles, and App's init goes on: setGraph for a project
\* that has nodes
LoadInitialDataSettles(outcome) ==
    /\ Settled
    /\ persistence.loading
    /\ LET data == IF outcome = "value" THEN persistence.stored ELSE <<>>
       IN /\ persistence' =
                [persistence EXCEPT
                   !.loading = FALSE,
                   !.isLoadedRef = TRUE,
                   !.lastSavedStr = IF data # <<>> THEN data ELSE @]
          /\ IF data # <<>> /\ Len(data[1]) > 0
             THEN /\ nodes' = data[1]
                  /\ connections' = data[2]
                  /\ nodesChanged' = TRUE
                  /\ connsChanged' = TRUE
             ELSE UNCHANGED <<nodes, connections, nodesChanged, connsChanged>>
    /\ lastOp' = [op |-> "loadInitialData", outcome |-> outcome]
    /\ UNCHANGED <<nextNode, nextConn, nextScene, calls, trail, failedConns, derived,
                   gens, bulk, nextGen>>

\* the two seconds of the debounce are over: the idle callback is requested
TimeoutFires ==
    /\ persistence.timeoutId # <<>>
    /\ persistence' =
          [persistence EXCEPT
             !.timeoutId = <<>>,
             !.idleCallbacks = Append(@, persistence.timeoutId[1])]
    /\ lastOp' = [op |-> "timeout"]
    /\ UNCHANGED <<nodes, connections, nextNode, nextConn, nextScene, nodesChanged,
                   connsChanged, calls, trail, failedConns, derived, gens, bulk, nextGen>>

\* the oldest requested idle callback runs: its second comparison, then
\* saveProject with the graph of the render that scheduled it
IdleCallbackRuns ==
    /\ persistence.idleCallbacks # <<>>
    /\ LET currentStr == Head(persistence.idleCallbacks)
           due == currentStr # persistence.lastSavedStr
       IN /\ persistence' =
                [persistence EXCEPT
                   !.idleCallbacks = Tail(@),
                   !.saving = IF due THEN Append(@, currentStr) ELSE @]
          /\ lastOp' = IF due
                       THEN [op |-> "saveProject", graph |-> currentStr,
                             lastSaved |-> persistence.lastSavedStr,
                             loading |-> persistence.loading]
                       ELSE [op |-> "saveSkipped"]
    /\ UNCHANGED <<nodes, connections, nextNode, nextConn, nextScene, nodesChanged,
                   connsChanged, calls, trail, failedConns, derived, gens, bulk, nextGen>>

\* the oldest saveProject in flight settles: the put, then the fingerprint
SaveProjectSettles(outcome) ==
    /\ persistence.saving # <<>>
    /\ LET currentStr == Head(persistence.saving)
       IN persistence' =
             [persistence EXCEPT
                !.saving = Tail(@),
                !.stored = IF outcome = "value" THEN currentStr ELSE @,
                !.lastSavedStr = IF outcome = "value" THEN currentStr ELSE @]
    /\ lastOp' = [op |-> "saveProjectSettles", outcome |-> outcome]
    /\ UNCHANGED <<nodes, connections, nextNode, nextConn, nextScene, nodesChanged,
                   connsChanged, calls, trail, failedConns, derived, gens, bulk, nextGen>>

\* the editor is shown once loadInitialData has settled
PersistNext ==
    \/ \E outcome \in {"value", "throw"} : LoadInitialDataSettles(outcome)
    \/ ~persistence.loading /\ AddNode(Image)
    \/ \E nodeId \in NodeIds(nextNode) :
          ~persistence.loading /\ HasNode(nodes, nodeId) /\ DeleteNode(nodeId)
    \/ PersistRender
    \/ TimeoutFires
    \/ IdleCallbackRuns
    \/ \E outcome \in {"value", "throw"} : SaveProjectSettles(outcome)

SpecPersist == InitPersist /\ [][PersistNext]_vars

\* a timer fires, an idle callback runs and a database request settles
SpecPersistFair ==
    /\ SpecPersist
    /\ WF_vars(PersistRender)
    /\ WF_vars(TimeoutFires)
    /\ WF_vars(IdleCallbackRuns)
    /\ WF_vars(\E outcome \in {"value", "throw"} : LoadInitialDataSettles(outcome))
    /\ WF_vars(\E outcome \in {"value", "throw"} : SaveProjectSettles(outcome))

\* C39: saveProject is never invoked while loadInitialData is in flight, and
\* the stored project stays as it is until loadInitialData has settled
NoSaveBeforeLoad ==
    [][/\ Len(persistence'.saving) > Len(persistence.saving)
          => ~persistence.loading /\ persistence.isLoadedRef
       /\ persistence.loading => persistence'.stored = persistence.stored]_vars

\* the first render's auto-save effect ran while loadInitialData was in
\* flight, and scheduled nothing
EffectRanWhileLoading ==
    /\ lastOp.op = "effects"
    /\ persistence.loading
    /\ persistence.timeoutId = <<>>

\* C32: saveProject is never called with a graph whose fingerprint is the
\* last saved (or loaded) one, and a render whose graph has that fingerprint
\* schedules no save
NoSaveOfSavedContent ==
    [][/\ Len(persistence'.saving) > Len(persistence.saving)
          => persistence'.saving[Len(persistence'.saving)] # persistence.lastSavedStr
       /\ (lastOp'.op = "effects" /\ <<nodes, connections>> = persistence.lastSavedStr)
          => persistence'.timeoutId = <<>>]_vars

\* a node was added and deleted again after a save: the render saw a new
\* graph object with the saved content and scheduled nothing
SameContentNotSaved ==
    /\ lastOp.op = "effects"
    /\ lastOp.after = "deleteNode"
    /\ lastOp.same
    /\ ~lastOp.scheduled
    /\ persistence.stored = persistence.lastSavedStr
    /\ persistence.stored # <<>>

\* C38: when the load and every save succeed, the stored project is in the
\* end, and stays, the final graph's nodes and connections (no project stored
\* for a graph that was never filled)
StoredIsFinalGraph ==
    ([](/\ lastOp.op = "loadInitialData" => lastOp.outcome = "value"
        /\ lastOp.op = "saveProjectSettles" => lastOp.outcome = "value"))
       => <>[](\/ persistence.stored = <<nodes, connections>>
               \/ persistence.stored = <<>> /\ nodes = <<>> /\ connections = <<>>)

-----------------------------------------------------------------------------
(* Rule C between Images and Transformations: does propagation come to rest *)

\* a saved project: an Image that holds a generated image and two
\* Transformations with different instructions and reference images; nothing
\* connected
InitCycle ==
    Loaded(<< [id |-> "n1", type |-> Image,
               data |-> Merge(InitialData(Image), [image |-> "img0"])],
              [id |-> "n2", type |-> Transformation,
               data |-> Merge(Blank, [modificationPrompt |-> "at night",
                                      transformationJson |-> "night",
                                      referenceImage |-> "ref0"])],
              [id |-> "n3", type |-> Transformation,
               data |-> Merge(Blank, [modificationPrompt |-> "in rain",
                                      transformationJson |-> "rain",
                                      referenceImage |-> "ref1"])] >>,
           <<>>, 0)

CycleNext ==
    \/ \E conn \in WireSpecs : Connect(conn)
    \/ \E nodeId \in NodeIds(nextNode), inputIndex \in {0, 1} :
          Disconnect(nodeId, inputIndex)
    \/ RenderPass

\* a render that is due happens
SpecCycle == InitCycle /\ [][CycleNext]_vars /\ WF_vars(RenderPass)

\* C33: once the user has stopped, the passes come to rest: from some pass
\* on no effect writes node data or connections any more
PropagationComesToRest == <>[]Settled

-----------------------------------------------------------------------------
(* Generation runs in flight *)

\* C34: at most one generateImage run is in flight for a node at any time,
\* also when its Generate button is pressed while generateAll is iterating
OneRunPerNode ==
    \A i, j \in 1..Len(gens) : i # j => gens[i].node # gens[j].node

\* React runs a render that is pending, and an awaited service call settles
SpecBulkFair ==
    /\ SpecBulk
    /\ WF_vars(RenderPass)
    /\ WF_vars(\E i \in 1..Len(gens), outcome \in Outcomes : GenSettles(i, outcome))

\* C37: isGeneratingAll is true exactly while a node selected by generateAll
\* has not finished generating, and it becomes false after every
\* generateAll, also when nothing was eligible and when a generation failed
BulkFlagLifecycle ==
    /\ [](bulk.active <=> Len(bulk.done) < Len(bulk.selected))
    /\ [](bulk.active =>
            \E i \in 1..Len(bulk.selected) :
               \A j \in 1..Len(bulk.done) : bulk.done[j].node # bulk.selected[i])
    /\ bulk.active ~> ~bulk.active

\* generateAll was invoked when no node was eligible, and the flag is off
BulkOfNothingEnded ==
    /\ lastOp.op = "generateAll"
    /\ bulk.selected = <<>>
    /\ ~bulk.active

-----------------------------------------------------------------------------
(* Enrichment of a Script: where the cache ends up *)

\* React runs a render that is pending, and every enrichCharacter call
\* responds at some render at rest
SpecSmartFair ==
    /\ SpecSmart
    /\ WF_vars(RenderPass)
    /\ SF_vars(\E i \in 1..Len(calls), outcome \in Outcomes :
                  EnrichCharacterSettles(i, outcome))

\* C36: in the end every Script stays with isCharacterLoading = false and
\* with cachedCharacterId the id of the node connected to its input 0,
\* undefined when nothing is connected there
CharacterCacheConverges ==
    <>[](\A i \in 1..Len(nodes) :
            nodes[i].type = Script =>
               LET k == FindConn(connections, nodes[i].id, 0)
               IN /\ ~nodes[i].data.isCharacterLoading
                  /\ nodes[i].data.cachedCharacterId =
                        IF k = 0 THEN Undef ELSE connections[k].fromNodeId)

\* the response for n2 was committed while n3 was the connected node: the
\* Script caches the identity of a node that is no longer connected
StaleIdentityCommitted ==
    /\ lastOp.op = "enrichCharacterSettles"
    /\ lastOp.src = "n2"
    /\ LET k == FindConn(connections, lastOp.node, 0)
       IN /\ k # 0
          /\ connections[k].fromNodeId = "n3"
          /\ NodeOf(nodes, lastOp.node).data.cachedCharacterId = "n2"

-----------------------------------------------------------------------------
(* Responses that arrive after their node was deleted *)

LateNext ==
    \/ \E nodeId \in NodeIds(nextNode) : HasNode(nodes, nodeId) /\ DeleteNode(nodeId)
    \/ \E nodeId \in NodeIds(nextNode) : GenerateImage(nodeId)
    \/ RenderPass
    \/ \E i \in 1..Len(calls), outcome \in Outcomes :
          EnrichCharacterSettles(i, outcome)
    \/ \E i \in 1..Len(calls), outcome \in Outcomes : SceneSpecSettles(i, outcome)
    \/ \E i \in 1..Len(gens), outcome \in Outcomes : GenSettles(i, outcome)

SpecLate == InitTraverse /\ [][LateNext]_vars

\* C35: a response of an enrichment or generation whose node has been
\* deleted leaves the connections and the nodes as they are: no node is
\* added or removed, the deleted node does not come back, and no node data
\* is written except the passport that a stage of the call derived for a
\* Character that is still there
LateWriteChangesNothing ==
    [][(/\ lastOp'.op \in {"enrichCharacterSettles", "sceneSpecSettles", "genSettles"}
        /\ ~HasNode(nodes, lastOp'.node))
          => /\ connections' = connections
             /\ Len(nodes') = Len(nodes)
             /\ ~HasNode(nodes', lastOp'.node)
             /\ \A i \in 1..Len(nodes) :
                   \/ nodes'[i] = nodes[i]
                   \/ /\ nodes[i].type = Character
                      /\ nodes'[i] = [nodes[i] EXCEPT !.data.characterPassport =
                                         nodes'[i].data.characterPassport]]_vars

\* the cinematic spec derived for an Image has arrived after the Image
\* was deleted
LateResponseArrived ==
    /\ lastOp.op = "sceneSpecSettles"
    /\ lastOp.committed
    /\ ~HasNode(nodes, lastOp.node)

=============================================================================
